---- MODULE Spec2Model ----
(***************************************************************************)
(* kick-monitor: the per-channel monitor (poller + chat subscriber), the   *)
(* livestream state registry, the supervisor (startup scan and the         *)
(* add-or-reactivate command) and the report command, as state machines.   *)
(*                                                                         *)
(* Tables are sets of rows projected on the columns the model reads.       *)
(* A nullable column or a Go pointer is a sequence: <<>> is NULL / nil,    *)
(* <<v>> is a value.  Goroutine locals are fields of the task's record.    *)
(* Times are seconds on the process clock `now`.                           *)
(***************************************************************************)
EXTENDS Integers, Sequences, FiniteSets, TLC

VARIABLES
    monitored_channels,  \* table models.MonitoredChannel
    channel_data,        \* table models.ChannelData
    livestream_data,     \* table models.LivestreamData
    chat_messages,       \* table models.ChatMessage
    streamer_profiles,   \* table models.StreamerProfile
    livestream_reports,  \* table models.LivestreamReport
    spam_reports,        \* table models.SpamReport
    latestLivestream,    \* sync.Map channel_id -> LatestLivestreamInfo
    now,                 \* the process clock (time.Now), in seconds
    main,                \* func main: [pc, activeChannels, i]
    monitors,            \* one entry per `go StartMonitoringChannel(&ch)`
    handlers,            \* AddChannelHandler invocations, per server worker
    requests,            \* add_channel requests received so far
    report_resp,         \* responses of ProcessLivestreamReportHandler
    report_runs          \* one entry per `go func(livestreamID)` report run

vars == <<monitored_channels, channel_data, livestream_data, chat_messages,
          streamer_profiles, livestream_reports, spam_reports,
          latestLivestream, now, main, monitors, handlers, requests,
          report_resp, report_runs>>

dbVars == <<monitored_channels, channel_data, livestream_data, chat_messages,
            streamer_profiles, livestream_reports, spam_reports>>

reportTables == <<streamer_profiles, livestream_reports, spam_reports>>

supervisorVars == <<main, handlers, requests>>

reportVars == <<report_resp, report_runs>>

(***************************************************************************)
(* Program constants.                                                      *)
(***************************************************************************)
FetchInterval == 120

LivestreamFreshnessLeeway == 20

\* 2 * time.Minute, in seconds: the viewer count timeline interval.
ReportTimeBlock == 120

\* 10 * time.Minute, in seconds: the message count timeline interval.
MessageTimelineBlock == 600

\* Burst detection: windows in seconds, minimum counts, and the least
\* similarity 0.7 as the quotient <<7, 10>>.
ExactDuplicateBurstWindow == 5

ExactDuplicateBurstMinCount == 3

SimilarMessageBurstWindow == 10

SimilarMessageBurstMinCount == 4

SimilarMessageMinSimilarity == <<7, 10>>

RapidMessageBurstWindow == 3

RapidMessageBurstMinCount == 5

\* time.Time{}: Go's zero time lies far before every reading of the clock.
ZeroTime == 0 - 100000

(***************************************************************************)
(* Bounds of the model.                                                    *)
(***************************************************************************)
\* The clock stops advancing here.
MaxTime == 141

\* add_channel requests the server receives in one run.
MaxRequests == 2

\* process_livestream_report requests the server receives in one run.
MaxReportRequests == 2

\* The longest chat body of SpecText.
MaxLen == 3

\* The clock of SpecSubscriber stops advancing here.
MaxSleepTime == 12

(***************************************************************************)
(* The platform: what the proxied channel endpoint answers.                *)
(***************************************************************************)
\* Usernames a request may carry.  The platform resolves "alice" and
\* "Alice" to the same channel; the table's username column does not.
Usernames == {"alice", "Alice", "bob"}

PlatformChannelID(username) == IF username = "bob" THEN 2 ELSE 1

PlatformChatroomID(channelID) == 10 + channelID

ChannelRow(id, username, active) ==
    [ChannelID |-> id, ChatroomID |-> PlatformChatroomID(id),
     Username |-> username, IsActive |-> active]

\* KickChannelResponse, reduced to the fields the monitor reads.
\* Livestream and Chatroom are pointers.
KickData(id, chatroom, livestream) ==
    [ID |-> id, Chatroom |-> chatroom, Livestream |-> livestream]

NoKickData == KickData(0, <<>>, <<>>)

\* A livestream payload; the streams of the model have no viewer and
\* started when the clock did.
KickLivestream(id, live) ==
    [ID |-> id, IsLive |-> live, ViewerCount |-> 0, StartTime |-> 0]

\* Answers of the channel endpoint for one username.
ChannelPayloads(username, livestreams) ==
    LET id == PlatformChannelID(username)
    IN  {KickData(id, <<[ID |-> PlatformChatroomID(id)]>>, ls) :
            ls \in {<<>>} \cup {<<l>> : l \in livestreams}}

\* Outcomes of the proxy round trip: every failure kind returns early.
FetchFailures == {"post_error", "read_error", "envelope_invalid",
                  "non_ok_status", "no_json", "invalid_json"}

FetchOutcomes(failures, payloads) ==
    {[status |-> f, kickData |-> NoKickData] : f \in failures}
        \cup {[status |-> "ok", kickData |-> p] : p \in payloads}

(***************************************************************************)
(* The livestream state registry (sync.Map).                               *)
(***************************************************************************)
LatestLivestreamInfo(id, fetchTime, live) ==
    [LivestreamID |-> id, FetchTime |-> fetchTime, IsLive |-> live]

ZeroInfo == LatestLivestreamInfo(0, ZeroTime, FALSE)

\* sync.Map.Store
Store(map, key, value) ==
    [k \in DOMAIN map \cup {key} |-> IF k = key THEN value ELSE map[k]]

\* sync.Map.Load: <<value, ok>>
Load(map, key) ==
    IF key \in DOMAIN map THEN <<map[key], TRUE>> ELSE <<ZeroInfo, FALSE>>

\* The attribution decision of handleWebSocketMessage: the livestream id
\* pointer a chat message handled at time t carries.
CurrentLivestreamIDStale(map, channelID, t) ==
    LET l == Load(map, channelID)
    IN  IF l[2] /\ l[1].IsLive
        THEN <<l[1].LivestreamID>>
        ELSE <<>>

CurrentLivestreamID(map, channelID, t) ==
    LET l == Load(map, channelID)
    IN  IF l[2] /\ l[1].IsLive
             /\ t - l[1].FetchTime <= FetchInterval + LivestreamFreshnessLeeway
        THEN <<l[1].LivestreamID>>
        ELSE <<>>

(***************************************************************************)
(* Tasks.                                                                  *)
(***************************************************************************)
NoChatMessage ==
    [ID |-> 0, ChatroomID |-> 0, LivestreamID |-> <<>>, CreatedAt |-> ZeroTime,
     SenderID |-> 0, SenderUsername |-> <<>>, Message |-> <<>>,
     MessageSendTime |-> ZeroTime]

\* The state `go monitor.StartMonitoringChannel(&ch)` creates: the goroutine
\* has not run yet; its poller and subscriber do not exist yet.
\* poll.found and poll.livestreams are the profile builder's result.Error
\* == nil and livestreamList; ws.sleep is what is left of a time.Sleep.
NewMonitor(ch) ==
    [channel |-> ch, pc |-> "spawned",
     poll |-> [pc |-> "none", kickData |-> NoKickData, found |-> FALSE,
               livestreams |-> <<>>],
     ws |-> [pc |-> "none", chatMessage |-> NoChatMessage, sleep |-> 0]]

Monitors == DOMAIN monitors

\* models.MonitoredChannel{}
NoChannel == [ChannelID |-> 0, ChatroomID |-> 0, Username |-> "", IsActive |-> FALSE]

\* An AddChannelHandler invocation: its locals, result.Error reduced to its
\* kind, and the response (status code, message, JSON body as a pointer).
Idle == [pc |-> "idle",
         req |-> [Username |-> "", IsActive |-> FALSE],
         existingChannel |-> NoChannel,
         channel |-> NoChannel,
         err |-> "", code |-> 0, message |-> "", body |-> <<>>]

Handlers == {"h1", "h2"}

\* All enumerations of a finite set as a sequence (a query without ORDER BY).
SetToSeqs(S) ==
    {s \in [1..Cardinality(S) -> S] : \A i, j \in DOMAIN s : i # j => s[i] # s[j]}

(***************************************************************************)
(* Initial states: the process starts on a database left by earlier runs.  *)
(***************************************************************************)
InitWith(channels, livestreams, chats, profiles) ==
    /\ monitored_channels = channels
    /\ channel_data = {}
    /\ livestream_data = livestreams
    /\ chat_messages = chats
    /\ streamer_profiles = profiles
    /\ livestream_reports = {}
    /\ spam_reports = {}
    /\ latestLivestream = << >>
    /\ now = 0
    /\ main = [pc |-> "load", activeChannels |-> <<>>, i |-> 1]
    /\ monitors = <<>>
    /\ handlers = [h \in Handlers |-> Idle]
    /\ requests = 0
    /\ report_resp = <<>>
    /\ report_runs = <<>>

(***************************************************************************)
(* func main: the startup scan.                                            *)
(***************************************************************************)
\* db.DB.Where("is_active = ?", true).Find(&activeChannels)
ActiveChannels(table) == {r \in table : r.IsActive}

\* A failed query is fatal (log.Fatalf): the process exits.
MainLoad(dbOk) ==
    /\ main.pc = "load"
    /\ IF dbOk
       THEN \E s \in SetToSeqs(ActiveChannels(monitored_channels)) :
                main' = [pc |-> "loop", activeChannels |-> s, i |-> 1]
       ELSE main' = [main EXCEPT !.pc = "fatal"]
    /\ UNCHANGED <<dbVars, latestLivestream, now, monitors, handlers,
                   requests, reportVars>>

\* The channel the i-th iteration hands to StartMonitoringChannel.
LoopChannelShared(chs, i) == chs[Len(chs)]

LoopChannel(chs, i) == chs[i]

\* for _, channel := range activeChannels { go StartMonitoringChannel(&channel) }
MainLaunch ==
    /\ main.pc = "loop"
    /\ main.i <= Len(main.activeChannels)
    /\ monitors' = Append(monitors,
                          NewMonitor(LoopChannel(main.activeChannels, main.i)))
    /\ main' = [main EXCEPT !.i = @ + 1]
    /\ UNCHANGED <<dbVars, latestLivestream, now, handlers, requests,
                   reportVars>>

\* The loop is over: the HTTP server starts.
MainServe ==
    /\ main.pc = "loop"
    /\ main.i > Len(main.activeChannels)
    /\ main' = [main EXCEPT !.pc = "serving"]
    /\ UNCHANGED <<dbVars, latestLivestream, now, monitors, handlers,
                   requests, reportVars>>

(***************************************************************************)
(* AddChannelHandler: the add-or-reactivate command.                       *)
(***************************************************************************)
\* return c.JSON(code, ...)
Respond(hs, code, message, body) ==
    [hs EXCEPT !.pc = "done", !.code = code, !.message = message, !.body = body]

\* A request arrives at a free worker; c.Bind may reject its body.
NewRequest(h, username, active, bindOk) ==
    /\ main.pc = "serving"
    /\ handlers[h].pc \in {"idle", "done"}
    /\ requests < MaxRequests
    /\ requests' = requests + 1
    /\ handlers' = [handlers EXCEPT ![h] =
           IF bindOk
           THEN [Idle EXCEPT !.pc = "lookup",
                             !.req = [Username |-> username, IsActive |-> active]]
           ELSE Respond(Idle, 400, "Invalid request body", <<>>)]
    /\ UNCHANGED <<dbVars, latestLivestream, now, main, monitors, reportVars>>

\* db.DB.Where("username = ?", req.Username).First(&existingChannel)
AddLookup(h, dbOk) ==
    LET hs == handlers[h]
        found == {r \in monitored_channels : r.Username = hs.req.Username}
    IN  /\ hs.pc = "lookup"
        /\ IF ~dbOk
           THEN handlers' = [handlers EXCEPT ![h] =
                    Respond([hs EXCEPT !.err = "db_error"], 500,
                            "Database error checking channel", <<>>)]
           ELSE IF found = {}
           THEN handlers' = [handlers EXCEPT ![h].pc = "fetch",
                                             ![h].err = "not_found"]
           ELSE \E r \in found :
                    handlers' = [handlers EXCEPT ![h].pc = "existing",
                                                 ![h].existingChannel = r]
        /\ UNCHANGED <<dbVars, latestLivestream, now, main, monitors, requests,
                       reportVars>>

\* db.DB.Model(&existingChannel).Update("is_active", v): by primary key.
UpdateIsActiveNone(table, channelID, v) == table

UpdateIsActive(table, channelID, v) ==
    {IF r.ChannelID = channelID THEN [r EXCEPT !.IsActive = v] ELSE r : r \in table}

\* The row exists: update is_active when it differs, launch when becoming
\* active, answer 200 with the (updated) row.
AddExisting(h, dbOk) ==
    LET hs == handlers[h]
        updated == [hs.existingChannel EXCEPT !.IsActive = hs.req.IsActive]
    IN  /\ hs.pc = "existing"
        /\ IF hs.existingChannel.IsActive # hs.req.IsActive
           THEN IF dbOk
                THEN /\ monitored_channels' =
                            UpdateIsActive(monitored_channels,
                                           hs.existingChannel.ChannelID,
                                           hs.req.IsActive)
                     /\ monitors' = IF hs.req.IsActive
                                    THEN Append(monitors, NewMonitor(updated))
                                    ELSE monitors
                     /\ handlers' = [handlers EXCEPT ![h] =
                            Respond([hs EXCEPT !.existingChannel = updated],
                                    200, "", <<updated>>)]
                ELSE /\ handlers' = [handlers EXCEPT ![h] =
                            Respond([hs EXCEPT !.err = "db_error"], 500,
                                    "Failed to update channel status", <<>>)]
                     /\ UNCHANGED <<monitored_channels, monitors>>
           ELSE /\ handlers' = [handlers EXCEPT ![h] =
                       Respond(hs, 200, "", <<hs.existingChannel>>)]
                /\ UNCHANGED <<monitored_channels, monitors>>
        /\ UNCHANGED <<channel_data, livestream_data, chat_messages,
                       reportTables, latestLivestream, now, main, requests,
                       reportVars>>

\* kickData, err := monitor.FetchChannelData(req.Username), then the channel
\* struct is built.  kickData.Chatroom is a pointer: dereferencing nil
\* panics, and the Recover middleware answers 500.
AddFetch(h, out) ==
    LET hs == handlers[h]
        k == out.kickData
    IN  /\ hs.pc = "fetch"
        /\ handlers' = [handlers EXCEPT ![h] =
               IF out.status # "ok"
               THEN Respond([hs EXCEPT !.err = "fetch_error"], 500,
                            "Failed to fetch channel data", <<>>)
               ELSE IF k.Chatroom = <<>>
               THEN Respond([hs EXCEPT !.err = "panic"], 500,
                            "Internal Server Error", <<>>)
               ELSE [hs EXCEPT !.pc = "doublecheck",
                               !.channel = [ChannelID |-> k.ID,
                                            ChatroomID |-> k.Chatroom[1].ID,
                                            Username |-> hs.req.Username,
                                            IsActive |-> hs.req.IsActive]]]
        /\ UNCHANGED <<dbVars, latestLivestream, now, main, monitors, requests,
                       reportVars>>

\* db.DB.First(&potentialExistingChannel, channel.ChannelID)
AddDoubleCheck(h, dbOk) ==
    LET hs == handlers[h]
        found == \E r \in monitored_channels : r.ChannelID = hs.channel.ChannelID
    IN  /\ hs.pc = "doublecheck"
        /\ handlers' = [handlers EXCEPT ![h] =
               IF ~dbOk
               THEN Respond([hs EXCEPT !.err = "db_error"], 500,
                            "Database error", <<>>)
               ELSE IF found
               THEN Respond([hs EXCEPT !.err = ""], 409,
                            "Channel was added concurrently", <<>>)
               ELSE [hs EXCEPT !.pc = "insert", !.err = "not_found"]]
        /\ UNCHANGED <<dbVars, latestLivestream, now, main, monitors, requests,
                       reportVars>>

\* The unique constraints of monitored_channels: the primary key channel_id,
\* chatroom_id and username.
UniqueViolation(table, ch) ==
    \E r \in table : \/ r.ChannelID = ch.ChannelID
                     \/ r.ChatroomID = ch.ChatroomID
                     \/ r.Username = ch.Username

\* What db.DB.Create writes for the struct, and leaves in it: IsActive is
\* tagged gorm:"default:true", so a zero value (false) is replaced by the
\* default.
CreateValues(ch) ==
    IF ch.IsActive = FALSE THEN [ch EXCEPT !.IsActive = TRUE] ELSE ch

\* result = db.DB.Create(&channel); launch if channel.IsActive; answer 201.
\* Every failure of the insert, the unique violation included, answers 500.
AddInsert(h, dbOk) ==
    LET hs == handlers[h]
        created == CreateValues(hs.channel)
    IN  /\ hs.pc = "insert"
        /\ IF ~dbOk \/ UniqueViolation(monitored_channels, hs.channel)
           THEN /\ handlers' = [handlers EXCEPT ![h] =
                       Respond([hs EXCEPT !.err = IF dbOk THEN "duplicate_key"
                                                         ELSE "db_error"],
                               500, "Failed to add channel to database", <<>>)]
                /\ UNCHANGED <<monitored_channels, monitors>>
           ELSE /\ monitored_channels' = monitored_channels \cup {created}
                /\ monitors' = IF created.IsActive
                               THEN Append(monitors, NewMonitor(created))
                               ELSE monitors
                /\ handlers' = [handlers EXCEPT ![h] =
                       Respond([hs EXCEPT !.channel = created, !.err = ""],
                               201, "", <<created>>)]
        /\ UNCHANGED <<channel_data, livestream_data, chat_messages,
                       reportTables, latestLivestream, now, main, requests,
                       reportVars>>

(***************************************************************************)
(* StartMonitoringChannel, the poller and the chat subscriber.             *)
(***************************************************************************)
\* Store the zero entry, then `go fetchDataAndPersist`, `go startWebSocketMonitor`.
StartMonitoringChannel(m) ==
    /\ monitors[m].pc = "spawned"
    /\ latestLivestream' =
           Store(latestLivestream, monitors[m].channel.ChannelID, ZeroInfo)
    /\ monitors' = [monitors EXCEPT ![m].pc = "running",
                                    ![m].poll.pc = "tick",
                                    ![m].ws.pc = "dial"]
    /\ UNCHANGED <<dbVars, now, supervisorVars, reportVars>>

IsLivePayload(kickData) ==
    /\ kickData.Livestream # <<>>
    /\ kickData.Livestream[1].IsLive

\* processChannelData up to the ChannelData insert: a failed fetch is
\* logged and processChannelData returns, the poller waits for the ticker;
\* a failed insert is logged and the tick goes on.
\* PollFetchFatal ends the goroutine on a failed fetch; PollFetchUnchecked
\* goes on with whatever the proxy answered.
PollFetchFatal(m, out, dbOk) ==
    /\ monitors[m].poll.pc = "tick"
    /\ out.status # "ok"
    /\ monitors' = [monitors EXCEPT ![m].poll.pc = "none"]
    /\ UNCHANGED <<dbVars, latestLivestream, now, supervisorVars, reportVars>>

PollFetchUnchecked(m, out, dbOk) ==
    /\ monitors[m].poll.pc = "tick"
    /\ monitors' = [monitors EXCEPT ![m].poll.pc = "fetched",
                                    ![m].poll.kickData = out.kickData]
    /\ channel_data' =
           channel_data \cup {[ChannelID |-> monitors[m].channel.ChannelID]}
    /\ UNCHANGED <<monitored_channels, livestream_data, chat_messages,
                   reportTables, latestLivestream, now, supervisorVars,
                   reportVars>>

PollFetch(m, out, dbOk) ==
    /\ monitors[m].poll.pc = "tick"
    /\ IF out.status = "ok"
       THEN /\ monitors' = [monitors EXCEPT ![m].poll.pc = "fetched",
                                            ![m].poll.kickData = out.kickData]
            /\ channel_data' =
                   IF dbOk
                   THEN channel_data \cup
                            {[ChannelID |-> monitors[m].channel.ChannelID]}
                   ELSE channel_data
       ELSE /\ monitors' = [monitors EXCEPT ![m].poll.pc = "wait"]
            /\ UNCHANGED channel_data
    /\ UNCHANGED <<monitored_channels, livestream_data, chat_messages,
                   reportTables, latestLivestream, now, supervisorVars,
                   reportVars>>

\* Where the live branch goes after db.DB.Create(&livestreamData): the
\* registry is written only when the snapshot was saved.
AfterLivestreamInsertAlways(dbOk) == "saved"

AfterLivestreamInsert(dbOk) == IF dbOk THEN "saved" ELSE "profile"

\* models.LivestreamData; CreatedAt is autoCreateTime.
StartedLivestreamData(channelID, livestreamID, viewerCount, createdAt, startTime) ==
    [ChannelID |-> channelID, LivestreamID |-> livestreamID,
     ViewerCount |-> viewerCount, CreatedAt |-> createdAt,
     StartTime |-> startTime]

\* A snapshot of a stream that started when the clock did.
LivestreamData(channelID, livestreamID, viewerCount, createdAt) ==
    StartedLivestreamData(channelID, livestreamID, viewerCount, createdAt, 0)

\* The live branch up to the LivestreamData insert, or the whole else branch.
PollLivestream(m, dbOk) ==
    LET t == monitors[m]
        ch == t.channel
    IN  /\ t.poll.pc = "fetched"
        /\ IF IsLivePayload(t.poll.kickData)
           THEN /\ livestream_data' =
                       IF dbOk
                       THEN livestream_data \cup
                                {StartedLivestreamData(ch.ChannelID,
                                     t.poll.kickData.Livestream[1].ID,
                                     t.poll.kickData.Livestream[1].ViewerCount,
                                     now,
                                     t.poll.kickData.Livestream[1].StartTime)}
                       ELSE livestream_data
                /\ monitors' = [monitors EXCEPT ![m].poll.pc =
                                   AfterLivestreamInsert(dbOk)]
                /\ UNCHANGED latestLivestream
           ELSE /\ latestLivestream' =
                       Store(latestLivestream, ch.ChannelID, ZeroInfo)
                /\ monitors' = [monitors EXCEPT ![m].poll.pc = "profile"]
                /\ UNCHANGED livestream_data
        /\ UNCHANGED <<monitored_channels, channel_data, chat_messages,
                       reportTables, now, supervisorVars, reportVars>>

\* The entry the poller writes once the snapshot is saved.
ObservedInfoUnstamped(kickData, t) ==
    LatestLivestreamInfo(kickData.Livestream[1].ID, 0, kickData.Livestream[1].IsLive)

ObservedInfo(kickData, t) ==
    LatestLivestreamInfo(kickData.Livestream[1].ID, t, kickData.Livestream[1].IsLive)

\* latestLivestream.Store(channel.ChannelID, LatestLivestreamInfo{...})
PollStore(m) ==
    LET t == monitors[m]
    IN  /\ t.poll.pc = "saved"
        /\ latestLivestream' =
               Store(latestLivestream, t.channel.ChannelID,
                     ObservedInfo(t.poll.kickData, now))
        /\ monitors' = [monitors EXCEPT ![m].poll.pc = "profile"]
        /\ UNCHANGED <<dbVars, now, supervisorVars, reportVars>>

\* buildLivestreamsList: the ids of the channel's reports, as a list.
ReportIDsOf(channelID) ==
    {r.ID : r \in {x \in livestream_reports : x.ChannelID = channelID}}

\* streamerProfileBuilder up to the save: First(&existingProfile), then the
\* list of buildLivestreamsList.  A failure of First other than not-found
\* is returned, and the tick is over; a failure of the list query is logged
\* and leaves the list empty.
PollProfile(m, dbOk, pluckOk) ==
    LET t == monitors[m]
        id == t.channel.ChannelID
    IN  /\ t.poll.pc = "profile"
        /\ IF dbOk
           THEN \E list \in SetToSeqs(IF pluckOk THEN ReportIDsOf(id) ELSE {}) :
                    monitors' = [monitors EXCEPT
                        ![m].poll.pc = "save",
                        ![m].poll.found =
                            \E p \in streamer_profiles : p.ChannelID = id,
                        ![m].poll.livestreams = list]
           ELSE monitors' = [monitors EXCEPT
                    ![m].poll = [pc |-> "wait", kickData |-> NoKickData,
                                 found |-> FALSE, livestreams |-> <<>>]]
        /\ UNCHANGED <<dbVars, latestLivestream, now, supervisorVars, reportVars>>

\* db.DB.Save(&profile) of the row that was found, the whole row with the
\* list that was built; db.DB.Create(&profile) when none was found, which
\* fails on a row of the channel created since.  Then the tick is over.
PollSaveProfile(m, dbOk) ==
    LET t == monitors[m]
        id == t.channel.ChannelID
        profile == [ChannelID |-> id, Username |-> t.channel.Username,
                    Livestreams |-> t.poll.livestreams]
        others == {p \in streamer_profiles : p.ChannelID # id}
    IN  /\ t.poll.pc = "save"
        /\ streamer_profiles' =
               IF dbOk /\ (t.poll.found \/ others = streamer_profiles)
               THEN others \cup {profile}
               ELSE streamer_profiles
        /\ monitors' = [monitors EXCEPT
               ![m].poll = [pc |-> "wait", kickData |-> NoKickData,
                            found |-> FALSE, livestreams |-> <<>>]]
        /\ UNCHANGED <<monitored_channels, channel_data, livestream_data,
                       chat_messages, livestream_reports, spam_reports,
                       latestLivestream, now, supervisorVars, reportVars>>

\* `for range ticker.C`: the ticker fires and the next tick begins.
PollTicker(m) ==
    /\ monitors[m].poll.pc = "wait"
    /\ monitors' = [monitors EXCEPT ![m].poll.pc = "tick"]
    /\ UNCHANGED <<dbVars, latestLivestream, now, supervisorVars, reportVars>>

\* time.Sleep(5 * time.Second) after a failed createWebSocket and
\* time.Sleep(1 * time.Second) after the read loop.
DialRetryDelay == 5

ReconnectDelay == 1

\* createWebSocket once no sleep is left: Dial, then WriteJSON(subscribe).
\* A failed Dial returns the error; a failed write closes the connection
\* and returns the error; on either the subscriber sleeps 5 s and dials
\* again.
WsDial(m, dialOk, writeOk) ==
    /\ monitors[m].ws.pc = "dial"
    /\ monitors[m].ws.sleep = 0
    /\ monitors' =
           IF dialOk /\ writeOk
           THEN [monitors EXCEPT ![m].ws.pc = "read"]
           ELSE [monitors EXCEPT ![m].ws.sleep = DialRetryDelay]
    /\ UNCHANGED <<dbVars, latestLivestream, now, supervisorVars, reportVars>>

\* conn.ReadMessage fails: close, leave the read loop, sleep 1 s, dial again.
\* WsReadErrorNoSleep dials again at once.
WsReadErrorNoSleep(m) ==
    /\ monitors[m].ws.pc = "read"
    /\ monitors' = [monitors EXCEPT ![m].ws.pc = "dial"]
    /\ UNCHANGED <<dbVars, latestLivestream, now, supervisorVars, reportVars>>

WsReadError(m) ==
    /\ monitors[m].ws.pc = "read"
    /\ monitors' = [monitors EXCEPT ![m].ws.pc = "dial",
                                    ![m].ws.sleep = ReconnectDelay]
    /\ UNCHANGED <<dbVars, latestLivestream, now, supervisorVars, reportVars>>

\* Frames of the transport.  decodes: msg.Data parses as the chat payload;
\* uuidOk: its id parses as a UUID.
Frame(event, decodes, uuidOk, id, chatroomID) ==
    [Event |-> event, decodes |-> decodes, uuidOk |-> uuidOk, ID |-> id,
     ChatroomID |-> chatroomID,
     Sender |-> [ID |-> 1, Slug |-> <<"v", "i", "e", "w", "e", "r">>],
     Content |-> <<"h", "i">>, CreatedAt |-> 0]

\* A chat message frame that decodes: its sender, its content and its
\* created_at, which parses to a time or, failing that, leaves the zero time.
ChatFrame(id, chatroomID, sender, content, createdAt) ==
    [Frame("ChatMessageEvent", TRUE, TRUE, id, chatroomID) EXCEPT
        !.Sender = sender, !.Content = content, !.CreatedAt = createdAt]

\* handleWebSocketMessage up to the insert: the registry is read first, for
\* every frame; only a chat message that parses goes on to the insert.
\* The read loop calls it and waits for it to return; WsHandleAsync is
\* `go handleWebSocketMessage`, the loop reading on at once.
WsHandleAsync(m, frame) ==
    /\ monitors[m].ws.pc \in {"read", "persist"}
    /\ frame.Event = "ChatMessageEvent" /\ frame.decodes /\ frame.uuidOk
    /\ monitors' = [monitors EXCEPT
           ![m].ws.pc = "persist",
           ![m].ws.chatMessage =
               [NoChatMessage EXCEPT !.ID = frame.ID,
                                     !.ChatroomID = frame.ChatroomID,
                                     !.CreatedAt = now,
                                     !.MessageSendTime = frame.CreatedAt]]
    /\ UNCHANGED <<dbVars, latestLivestream, now, supervisorVars, reportVars>>

WsHandle(m, frame) ==
    LET t == monitors[m]
        cur == CurrentLivestreamID(latestLivestream, t.channel.ChannelID, now)
    IN  /\ t.ws.pc = "read"
        /\ IF frame.Event = "ChatMessageEvent" /\ frame.decodes /\ frame.uuidOk
           THEN monitors' = [monitors EXCEPT ![m].ws =
                    [pc |-> "persist", sleep |-> 0,
                     chatMessage |-> [ID |-> frame.ID,
                                      ChatroomID |-> frame.ChatroomID,
                                      LivestreamID |-> cur,
                                      CreatedAt |-> now,
                                      SenderID |-> frame.Sender.ID,
                                      SenderUsername |-> frame.Sender.Slug,
                                      Message |-> frame.Content,
                                      MessageSendTime |-> frame.CreatedAt]]]
           ELSE UNCHANGED monitors
        /\ UNCHANGED <<dbVars, latestLivestream, now, supervisorVars, reportVars>>

\* models.ChatMessage, with the channel whose subscriber stored it.
ChatMessage(id, chatroomID, livestreamID, ingestChannelID, senderID, senderUsername, message, messageSendTime) ==
    [ID |-> id, ChatroomID |-> chatroomID, LivestreamID |-> livestreamID,
     IngestChannelID |-> ingestChannelID, SenderID |-> senderID,
     SenderUsername |-> senderUsername, Message |-> message,
     MessageSendTime |-> messageSendTime]

\* db.DB.Create(&chatMessage): the id is the primary key.  The row records
\* the channel whose subscriber stored it (IngestChannelID, a history field).
WsPersist(m, dbOk) ==
    LET t == monitors[m]
        msg == t.ws.chatMessage
    IN  /\ t.ws.pc = "persist"
        /\ chat_messages' =
               IF dbOk /\ ~\E r \in chat_messages : r.ID = msg.ID
               THEN chat_messages \cup
                        {ChatMessage(msg.ID, msg.ChatroomID, msg.LivestreamID,
                                     t.channel.ChannelID, msg.SenderID,
                                     msg.SenderUsername, msg.Message,
                                     msg.MessageSendTime)}
               ELSE chat_messages
        /\ monitors' = [monitors EXCEPT ![m].ws =
                           [pc |-> "read", chatMessage |-> NoChatMessage,
                            sleep |-> 0]]
        /\ UNCHANGED <<monitored_channels, channel_data, livestream_data,
                       reportTables, latestLivestream, now, supervisorVars,
                       reportVars>>

\* Time passes, for the sleeping subscribers too.  TickAsleep leaves the
\* sleepers asleep.
TickAsleep(d) ==
    /\ now + d <= MaxTime
    /\ now' = now + d
    /\ UNCHANGED <<dbVars, latestLivestream, supervisorVars, monitors,
                   reportVars>>

Tick(d) ==
    /\ now + d <= MaxTime
    /\ now' = now + d
    /\ monitors' = [m \in DOMAIN monitors |->
           [monitors[m] EXCEPT !.ws.sleep = IF @ > d THEN @ - d ELSE 0]]
    /\ UNCHANGED <<dbVars, latestLivestream, supervisorVars, reportVars>>

(***************************************************************************)
(* Text.  A Go string is a sequence of one-character strings.              *)
(***************************************************************************)
\* strings.ToLower, on the letters of ASCII.
ToLower(s) ==
    LET upper == <<"A", "B", "C", "D", "E", "F", "G", "H", "I", "J", "K", "L",
                   "M", "N", "O", "P", "Q", "R", "S", "T", "U", "V", "W", "X",
                   "Y", "Z">>
        lower == <<"a", "b", "c", "d", "e", "f", "g", "h", "i", "j", "k", "l",
                   "m", "n", "o", "p", "q", "r", "s", "t", "u", "v", "w", "x",
                   "y", "z">>
    IN  [i \in DOMAIN s |->
            IF \E k \in DOMAIN upper : upper[k] = s[i]
            THEN lower[CHOOSE k \in DOMAIN upper : upper[k] = s[i]]
            ELSE s[i]]

\* White space: the characters both \s and unicode.IsSpace accept.
IsSpace(c) == c \in {" ", "\t", "\n", "\r"}

\* strings.TrimSpace
TrimSpace(s) ==
    LET keep == {i \in DOMAIN s : ~IsSpace(s[i])}
    IN  IF keep = {}
        THEN <<>>
        ELSE SubSeq(s, CHOOSE i \in keep : \A k \in keep : i <= k,
                       CHOOSE j \in keep : \A k \in keep : j >= k)

\* util.NormalizeChatMessage: strings.ToLower, strings.TrimSpace, then
\* regexp.MustCompile(`\s+`).ReplaceAllString(normalized, " ").
\* NormalizeChatMessageRaw leaves the message as it is.
NormalizeChatMessageRaw(message) == message

NormalizeChatMessage(message) ==
    LET RECURSIVE ReplaceSpaceRuns(_)
        ReplaceSpaceRuns(s) ==
            IF s = <<>>
            THEN <<>>
            ELSE IF IsSpace(s[1])
            THEN IF Len(s) > 1 /\ IsSpace(s[2])
                 THEN ReplaceSpaceRuns(Tail(s))
                 ELSE <<" ">> \o ReplaceSpaceRuns(Tail(s))
            ELSE <<s[1]>> \o ReplaceSpaceRuns(Tail(s))
    IN  ReplaceSpaceRuns(TrimSpace(ToLower(message)))

\* s[i..j] matches `\[emote:\d+:\w+\]`.
EmoteAt(s, i, j) ==
    LET digits == {"0", "1", "2", "3", "4", "5", "6", "7", "8", "9"}
        word(c) == c \in digits \cup {"_"} \/ ToLower(<<c>>) # <<c>>
                       \/ ToLower(<<c>>)[1] \in
                              {"a", "b", "c", "d", "e", "f", "g", "h", "i",
                               "j", "k", "l", "m", "n", "o", "p", "q", "r",
                               "s", "t", "u", "v", "w", "x", "y", "z"}
    IN  /\ 1 <= i
        /\ j <= Len(s)
        /\ i + 6 <= j
        /\ SubSeq(s, i, i + 6) = <<"[", "e", "m", "o", "t", "e", ":">>
        /\ s[j] = "]"
        /\ \E k \in (i + 8)..(j - 2) :
              /\ s[k] = ":"
              /\ \A p \in (i + 7)..(k - 1) : s[p] \in digits
              /\ \A p \in (k + 1)..(j - 1) : word(s[p])

\* emoteRegex.MatchString: an emote anywhere in the message.
emoteRegex(s) == \E i \in DOMAIN s, j \in DOMAIN s : EmoteAt(s, i, j)

\* onlyEmotesRegex.MatchString, `^(\s*\[emote:\d+:\w+\]\s*)+$`: from
\* position i on, emotes with white space around them and nothing else.
RECURSIVE onlyEmotesRegexFrom(_, _)
onlyEmotesRegexFrom(s, i) ==
    \E a \in i..Len(s), b \in i..Len(s) :
        /\ \A p \in i..(a - 1) : IsSpace(s[p])
        /\ EmoteAt(s, a, b)
        /\ \/ \A p \in (b + 1)..Len(s) : IsSpace(s[p])
           \/ onlyEmotesRegexFrom(s, b + 1)

onlyEmotesRegex(s) == onlyEmotesRegexFrom(s, 1)

\* AppSenders
AppSenders ==
    {<<"b", "o", "t", "r", "i", "x">>, <<"@", "f", "o", "s", "s", "a", "b", "o", "t">>,
     <<"f", "o", "s", "s", "a", "b", "o", "t">>, <<"k", "i", "c", "b", "o", "t">>}

\* util.JaccardSimilarity.  strings.Fields gives the words, the maximal runs
\* without white space; the maps keep the set of them.  The float64 quotient
\* is the pair <<numerator, denominator>>: 1.0 is <<1, 1>>, 0.0 is <<0, 1>>.
\* JaccardSimilarityExact compares the strings whole.
JaccardSimilarityExact(s1, s2) == IF s1 = s2 THEN <<1, 1>> ELSE <<0, 1>>

JaccardSimilarity(s1, s2) ==
    LET Fields(s) ==
            {SubSeq(s, p[1], p[2]) : p \in
                {p \in (DOMAIN s) \X (DOMAIN s) :
                    /\ p[1] <= p[2]
                    /\ \A k \in p[1]..p[2] : ~IsSpace(s[k])
                    /\ p[1] = 1 \/ IsSpace(s[p[1] - 1])
                    /\ p[2] = Len(s) \/ IsSpace(s[p[2] + 1])}}
        set1 == Fields(s1)
        set2 == Fields(s2)
        intersection == Cardinality(set1 \cap set2)
        union == Cardinality(set1) + Cardinality(set2) - intersection
    IN  IF set1 = {} /\ set2 = {} THEN <<1, 1>>
        ELSE IF set1 = {} \/ set2 = {} THEN <<0, 1>>
        ELSE <<intersection, union>>

\* util.UniqueStrings: the first occurrence of each value, in order.
UniqueStrings(slice) ==
    LET first == {i \in DOMAIN slice : \A k \in 1..(i - 1) : slice[k] # slice[i]}
        RECURSIVE Pick(_)
        Pick(i) == IF i > Len(slice) THEN <<>>
                   ELSE IF i \in first THEN <<slice[i]>> \o Pick(i + 1)
                   ELSE Pick(i + 1)
    IN  Pick(1)

\* The ascending enumeration of a finite set of integers.
RECURSIVE Ascending(_)
Ascending(S) ==
    IF S = {} THEN <<>>
    ELSE LET least == CHOOSE x \in S : \A y \in S : x <= y
         IN  <<least>> \o Ascending(S \ {least})

\* util.UniqueSortedTimes
UniqueSortedTimes(slice) == Ascending({slice[i] : i \in DOMAIN slice})

\* strings.Join(elems, sep)
RECURSIVE Join(_, _)
Join(elems, sep) ==
    IF elems = <<>> THEN <<>>
    ELSE IF Len(elems) = 1 THEN elems[1]
    ELSE elems[1] \o sep \o Join(Tail(elems), sep)

\* slices.Contains(nativeLivestreams, newReportUUID); util.ContainsString
Contains(list, x) == \E i \in DOMAIN list : list[i] = x

\* time.Time.Truncate(d): round down to a multiple of d.  The clock counts
\* from an instant that is a multiple of every block.
Truncate(t, d) == t - (t % d)

(***************************************************************************)
(* The report metrics: time series and spam analysis.                      *)
(***************************************************************************)
\* buildViewerCountTimeline.  With no viewer count it returns the empty
\* timeline.  viewerCounts is scanned from its end, so the last snapshot of
\* a block gives the block's count.  buildViewerCountTimelineAlways emits
\* a point per block whatever it is given.
buildViewerCountTimelineAlways(viewerCounts, reportStartTime, reportEndTime) ==
    [k \in 1..((reportEndTime - reportStartTime) \div ReportTimeBlock) |->
        [Time |-> reportStartTime + (k - 1) * ReportTimeBlock, Count |-> 0]]

buildViewerCountTimeline(viewerCounts, reportStartTime, reportEndTime) ==
    LET RECURSIVE Blocks(_, _)
        Blocks(timeline, currentBlockTime) ==
            IF ~(currentBlockTime < reportEndTime)
            THEN timeline
            ELSE LET blockEndTime == currentBlockTime + ReportTimeBlock
                     inBlock == {i \in DOMAIN viewerCounts :
                         /\ viewerCounts[i].CreatedAt < blockEndTime
                         /\ ~(viewerCounts[i].CreatedAt < currentBlockTime)}
                     lastCountInBlock ==
                         IF inBlock # {}
                         THEN viewerCounts[CHOOSE i \in inBlock :
                                  \A k \in inBlock : i >= k].ViewerCount
                         ELSE IF Len(timeline) > 0
                         THEN timeline[Len(timeline)].Count
                         ELSE 0
                 IN  Blocks(Append(timeline, [Time |-> currentBlockTime,
                                              Count |-> lastCountInBlock]),
                            blockEndTime)
    IN  IF Len(viewerCounts) = 0
        THEN <<>>
        ELSE Blocks(<<>>, Truncate(reportStartTime, ReportTimeBlock))

\* calculateViewerAnalytics: average, peak and lowest of the viewer counts
\* fetched; the average is an integer division.
calculateViewerAnalytics(viewerCounts) ==
    LET counts == {viewerCounts[i].ViewerCount : i \in DOMAIN viewerCounts}
        RECURSIVE totalViewers(_)
        totalViewers(i) ==
            IF i > Len(viewerCounts) THEN 0
            ELSE viewerCounts[i].ViewerCount + totalViewers(i + 1)
    IN  IF Len(viewerCounts) = 0
        THEN [average |-> 0, peak |-> 0, lowest |-> 0]
        ELSE [average |-> totalViewers(1) \div Len(viewerCounts),
              peak |-> CHOOSE c \in counts \cup {0} :
                           \A d \in counts \cup {0} : c >= d,
              lowest |-> CHOOSE c \in counts : \A d \in counts : c <= d]

\* buildMessageCountTimeline
buildMessageCountTimeline(messages, reportStartTime, reportEndTime) ==
    LET blockCounts(block) ==
            Cardinality({i \in DOMAIN messages :
                Truncate(messages[i].MessageSendTime, MessageTimelineBlock)
                    = block})
        RECURSIVE Blocks(_, _)
        Blocks(timeline, currentBlockTime) ==
            IF ~(currentBlockTime < reportEndTime)
            THEN timeline
            ELSE Blocks(Append(timeline, [Time |-> currentBlockTime,
                                          Count |-> blockCounts(currentBlockTime)]),
                        currentBlockTime + MessageTimelineBlock)
    IN  IF Len(messages) = 0
        THEN <<>>
        ELSE Blocks(<<>>, Truncate(reportStartTime, MessageTimelineBlock))

\* The indices the inner loop of a pass visits from anchor i: it stops at
\* the first later message sent more than window after the anchor.
\* VisitedAll visits every later message.
VisitedAll(messages, i, window) == (i + 1)..Len(messages)

Visited(messages, i, window) ==
    {j \in (i + 1)..Len(messages) :
        \A k \in (i + 1)..j :
            messages[k].MessageSendTime - messages[i].MessageSendTime <= window}

\* The messages at the indices, in the order of the indices.
Collected(messages, indices) ==
    LET at == Ascending(indices)
    IN  [k \in DOMAIN at |-> messages[at[k]]]

\* Check for Exact Duplicate Bursts, from anchor i on: the records appended.
\* `i += exactBurstCount - 1`, then the loop's i++.
RECURSIVE ExactDuplicateBursts(_, _)
ExactDuplicateBursts(messages, i) ==
    IF i > Len(messages)
    THEN {}
    ELSE LET currentMsg == messages[i]
             burst == Collected(messages, {i} \cup
                 {j \in Visited(messages, i, ExactDuplicateBurstWindow) :
                     NormalizeChatMessage(messages[j].Message)
                         = NormalizeChatMessage(currentMsg.Message)})
             exactBurstCount == Len(burst)
         IN  IF exactBurstCount >= ExactDuplicateBurstMinCount
             THEN {[Username |-> currentMsg.SenderUsername,
                    Content |-> currentMsg.Message,
                    Count |-> exactBurstCount,
                    Timestamps |-> UniqueSortedTimes(
                        [k \in DOMAIN burst |-> burst[k].MessageSendTime])]}
                  \cup ExactDuplicateBursts(messages, i + exactBurstCount)
             ELSE ExactDuplicateBursts(messages, i + 1)

\* Check for Similar Message Bursts, from anchor i on.  The quotient is
\* compared with 0.7 on integers: only intersection/union = 7/10 meets the
\* bound exactly, and that quotient rounds to the float64 the literal denotes.
RECURSIVE SimilarMessageBursts(_, _)
SimilarMessageBursts(messages, i) ==
    IF i > Len(messages)
    THEN {}
    ELSE LET currentMsg == messages[i]
             similar(j) ==
                 LET q == JaccardSimilarity(
                              NormalizeChatMessage(currentMsg.Message),
                              NormalizeChatMessage(messages[j].Message))
                 IN  q[1] * SimilarMessageMinSimilarity[2]
                         >= SimilarMessageMinSimilarity[1] * q[2]
             burst == Collected(messages, {i} \cup
                 {j \in Visited(messages, i, SimilarMessageBurstWindow) :
                     similar(j)})
             similarBurstCount == Len(burst)
         IN  IF similarBurstCount >= SimilarMessageBurstMinCount
             THEN {[Username |-> currentMsg.SenderUsername,
                    Pattern |-> Join(UniqueStrings(
                        [k \in DOMAIN burst |-> burst[k].Message]),
                        <<" ", "/", " ">>),
                    Count |-> similarBurstCount,
                    Timestamps |-> UniqueSortedTimes(
                        [k \in DOMAIN burst |-> burst[k].MessageSendTime])]}
                  \cup SimilarMessageBursts(messages, i + similarBurstCount)
             ELSE SimilarMessageBursts(messages, i + 1)

\* The first entry of the list for the user: `for k := range ... break`.
EntryOf(list, userID) ==
    CHOOSE k \in DOMAIN list :
        /\ list[k].UserID = userID
        /\ \A j \in 1..(k - 1) : list[j].UserID # userID

\* The tag is added to the user's entry unless it is there.
AddIssueAlways(issues, tag) == Append(issues, tag)

AddIssue(issues, tag) ==
    IF Contains(issues, tag) THEN issues ELSE Append(issues, tag)

\* A rapid burst is recorded: a new entry for a user not yet in
\* SuspiciousChattersMap, else the user's entry is extended.
RecordRapidBurst(metrics, currentMsg, burstTimestamps, exampleMessages) ==
    LET list == metrics.SuspiciousChattersList
        id == currentMsg.SenderID
    IN  IF id \notin metrics.SuspiciousChattersMap
        THEN [metrics EXCEPT
                 !.SuspiciousChattersMap = @ \cup {id},
                 !.SuspiciousChattersList = Append(@,
                     [UserID |-> id,
                      Username |-> currentMsg.SenderUsername,
                      PotentialIssues |-> <<"rapid_message_bursts">>,
                      MessageTimestamps |-> UniqueSortedTimes(burstTimestamps),
                      ExampleMessages |-> UniqueStrings(exampleMessages)])]
        ELSE IF \E k \in DOMAIN list : list[k].UserID = id
        THEN [metrics EXCEPT
                 !.SuspiciousChattersList[EntryOf(list, id)] =
                     [@ EXCEPT
                         !.PotentialIssues = AddIssue(@, "rapid_message_bursts"),
                         !.MessageTimestamps =
                             UniqueSortedTimes(@ \o burstTimestamps),
                         !.ExampleMessages =
                             UniqueStrings(@ \o exampleMessages)]]
        ELSE metrics

\* Check for Rapid Message Bursts, from anchor i on.
RECURSIVE RapidMessageBursts(_, _, _)
RapidMessageBursts(metrics, messages, i) ==
    IF i > Len(messages)
    THEN metrics
    ELSE LET currentMsg == messages[i]
             burst == Collected(messages, {i} \cup
                 Visited(messages, i, RapidMessageBurstWindow))
             rapidBurstCount == Len(burst)
         IN  IF rapidBurstCount >= RapidMessageBurstMinCount
             THEN RapidMessageBursts(
                      RecordRapidBurst(metrics, currentMsg,
                          [k \in DOMAIN burst |-> burst[k].MessageSendTime],
                          [k \in DOMAIN burst |-> burst[k].Message]),
                      messages, i + rapidBurstCount)
             ELSE RapidMessageBursts(metrics, messages, i + 1)

\* suspiciousUsernameChecker.MatchString: case-insensitive; a keyword
\* anywhere in the name, or five or more digits at its end.
SuspiciousUsername(username) ==
    LET s == ToLower(username)
        keywords ==
            {<<"b", "o", "t">>, <<"s", "p", "a", "m">>, <<"a", "d">>,
             <<"c", "r", "y", "p", "t", "o">>, <<"f", "o", "l", "l", "o", "w">>,
             <<"s", "u", "b">>, <<"c", "a", "s", "h">>,
             <<"g", "i", "v", "e", "a", "w", "a", "y">>, <<"w", "i", "n">>,
             <<"j", "o", "i", "n">>, <<"d", "i", "s", "c", "o", "r", "d">>,
             <<"t", "e", "l", "e", "g", "r", "a", "m">>, <<"l", "i", "n", "k">>,
             <<"o", "n", "l", "y", "f", "a", "n", "s">>, <<"o", "f">>}
        digits == {"0", "1", "2", "3", "4", "5", "6", "7", "8", "9"}
        at(i, w) == i + Len(w) - 1 <= Len(s) /\ SubSeq(s, i, i + Len(w) - 1) = w
        spaced(first, second) ==
            \E i \in DOMAIN s, j \in DOMAIN s :
                /\ at(i, first)
                /\ j >= i + Len(first)
                /\ \A k \in (i + Len(first))..(j - 1) : IsSpace(s[k])
                /\ at(j, second)
    IN  \/ \E w \in keywords : \E i \in DOMAIN s : at(i, w)
        \/ spaced(<<"f", "r", "e", "e">>, <<"v", "b", "u", "c", "k", "s">>)
        \/ spaced(<<"n", "u", "d", "e">>, <<"l", "i", "n", "k">>)
        \/ /\ Len(s) >= 5
           /\ \A k \in (Len(s) - 4)..Len(s) : s[k] \in digits

\* Check for Suspicious Usernames: one user of userMessageHistory.
CheckUsername(metrics, userID, msgs) ==
    LET list == metrics.SuspiciousChattersList
        usernameToCheck == msgs[1].SenderUsername
    IN  IF Len(msgs) > 0 /\ SuspiciousUsername(usernameToCheck)
        THEN IF userID \notin metrics.SuspiciousChattersMap
             THEN [metrics EXCEPT
                      !.SuspiciousChattersMap = @ \cup {userID},
                      !.SuspiciousChattersList = Append(@,
                          [UserID |-> userID,
                           Username |-> usernameToCheck,
                           PotentialIssues |-> <<"suspicious_username">>,
                           MessageTimestamps |-> <<>>,
                           ExampleMessages |-> <<>>])]
             ELSE IF \E k \in DOMAIN list : list[k].UserID = userID
             THEN [metrics EXCEPT
                      !.SuspiciousChattersList[EntryOf(list, userID)]
                          .PotentialIssues = AddIssue(@, "suspicious_username")]
             ELSE metrics
        ELSE metrics

\* NewReportMetrics(), reduced to the spam analysis.  The burst lists are
\* appended to in map order and sorted by count with sort.Slice; a list is
\* kept as the set of its records.
NewReportMetrics ==
    [UniqueChatters |-> {}, MessagesWithEmotes |-> 0, MessagesFromApps |-> 0,
     MessagesMultipleEmotesOnly |-> 0, ExactDuplicateContents |-> <<>>,
     ExactDuplicateBursts |-> {}, SimilarMessageBursts |-> {},
     SuspiciousChattersMap |-> {}, SuspiciousChattersList |-> <<>>]

\* The updates of processSingleMessage, with the key of the message in
\* metrics.ExactDuplicateContents.  A Go map is a function from the keys it
\* holds.
MessageMetrics(metrics, msg, key) ==
    LET contents == metrics.ExactDuplicateContents
        emote == emoteRegex(msg.Message)
    IN  [metrics EXCEPT
            !.UniqueChatters = @ \cup {msg.SenderUsername},
            !.MessagesWithEmotes = IF emote THEN @ + 1 ELSE @,
            !.MessagesMultipleEmotesOnly =
                IF emote /\ onlyEmotesRegex(TrimSpace(msg.Message))
                THEN @ + 1 ELSE @,
            !.MessagesFromApps =
                IF msg.SenderUsername \in AppSenders THEN @ + 1 ELSE @,
            !.ExactDuplicateContents =
                IF key \in DOMAIN contents
                THEN [contents EXCEPT ![key] = @ + 1]
                ELSE (key :> 1) @@ contents]

\* processSingleMessage between metrics.Lock() and the deferred Unlock().
\* processSingleMessageRaw counts the bodies as sent.
processSingleMessageRaw(metrics, msg) ==
    MessageMetrics(metrics, msg, msg.Message)

processSingleMessage(metrics, msg) ==
    MessageMetrics(metrics, msg, NormalizeChatMessage(msg.Message))

\* The worker pool: every message of the channel is taken by one of the
\* workers, which hold the lock of the metrics for the whole of
\* processSingleMessage; the increments commute, and the messages are
\* folded in the order of the channel.
RECURSIVE MessageWorkers(_, _, _)
MessageWorkers(metrics, chatMessages, i) ==
    IF i > Len(chatMessages)
    THEN metrics
    ELSE MessageWorkers(processSingleMessage(metrics, chatMessages[i]),
                        chatMessages, i + 1)

\* The spam analysis.  `for _, messages := range userMessageHistory` runs
\* the three passes user by user, `for userID, msgs := range
\* userMessageHistory` checks the usernames; each ranges over the map in
\* an order of its own, bursts and usernames.
SpamAnalysis(processed, userMessageHistory, bursts, usernames) ==
    LET RECURSIVE BurstPasses(_, _)
        BurstPasses(metrics, k) ==
            IF k > Len(bursts)
            THEN metrics
            ELSE LET messages == userMessageHistory[bursts[k]]
                     rapid == RapidMessageBursts(metrics, messages, 1)
                 IN  BurstPasses(
                         [rapid EXCEPT
                             !.ExactDuplicateBursts =
                                 @ \cup ExactDuplicateBursts(messages, 1),
                             !.SimilarMessageBursts =
                                 @ \cup SimilarMessageBursts(messages, 1)],
                         k + 1)
        RECURSIVE UsernamePass(_, _)
        UsernamePass(metrics, k) ==
            IF k > Len(usernames)
            THEN metrics
            ELSE UsernamePass(
                     CheckUsername(metrics, usernames[k],
                                   userMessageHistory[usernames[k]]),
                     k + 1)
    IN  UsernamePass(BurstPasses(processed, 1), 1)

(***************************************************************************)
(* ProcessLivestreamReportHandler and GenerateLivestreamReport.            *)
(***************************************************************************)
\* if req.LivestreamID == 0 { return 400 }
ValidLivestreamIDAny(id) == TRUE

ValidLivestreamID(id) == id # 0

\* The state `go func(livestreamID uint) {...}(req.LivestreamID)` creates.
\* err is the message of the returned error, cause the error it wraps.
NewRun(id) ==
    [livestreamID |-> id, pc |-> "start", monitoredChannel |-> NoChannel,
     reportStartTime |-> ZeroTime, reportEndTime |-> ZeroTime,
     chatMessages |-> <<>>, viewerCounts |-> <<>>,
     userMessageHistory |-> <<>>, metrics |-> NewReportMetrics,
     streamActualStartTime |-> ZeroTime,
     messageProcessingChan |-> <<>>, workers |-> <<>>, mutex |-> 0, wg |-> 0,
     err |-> "", cause |-> ""]

\* MIN(message_send_time) and MAX(message_send_time); over no rows the
\* variables scanned into keep their zero value.
MinMessageTime(messages) ==
    IF messages = {} THEN ZeroTime
    ELSE CHOOSE t \in {m.MessageSendTime : m \in messages} :
            \A m \in messages : t <= m.MessageSendTime

MaxMessageTime(messages) ==
    IF messages = {} THEN ZeroTime
    ELSE CHOOSE t \in {m.MessageSendTime : m \in messages} :
            \A m \in messages : t >= m.MessageSendTime

\* reportStartTime := minMessageTime.Truncate(MessageTimelineBlock)
ReportStartTime(minMessageTime) == Truncate(minMessageTime, MessageTimelineBlock)

\* reportEndTime := maxMessageTime.Add(MessageTimelineBlock).Truncate(MessageTimelineBlock)
\* ReportEndTimeUnpadded leaves the Add out.
ReportEndTimeUnpadded(maxMessageTime) ==
    Truncate(maxMessageTime, MessageTimelineBlock)

ReportEndTime(maxMessageTime) ==
    Truncate(maxMessageTime + MessageTimelineBlock, MessageTimelineBlock)

\* durationMinutes := int(reportEndTime.Sub(reportStartTime).Minutes())
DurationMinutes(reportStartTime, reportEndTime) ==
    (reportEndTime - reportStartTime) \div 60

\* The whole handler: bind, validate, start the run, acknowledge.  The
\* response records the request and the number of runs started so far.
ProcessLivestreamReportHandler(bindOk, id) ==
    /\ main.pc = "serving"
    /\ Len(report_resp) < MaxReportRequests
    /\ IF ~bindOk
       THEN /\ report_resp' = Append(report_resp,
                   [bound |-> FALSE, LivestreamID |-> 0, code |-> 400,
                    message |-> "Invalid request body"])
            /\ UNCHANGED report_runs
       ELSE IF ~ValidLivestreamID(id)
       THEN /\ report_resp' = Append(report_resp,
                   [bound |-> TRUE, LivestreamID |-> id, code |-> 400,
                    message |-> "livestream_id is required and must be a valid ID"])
            /\ UNCHANGED report_runs
       ELSE /\ report_resp' = Append(report_resp,
                   [bound |-> TRUE, LivestreamID |-> id, code |-> 202,
                    message |-> "Livestream lr generation initiated."])
            /\ report_runs' = Append(report_runs, NewRun(id))
    /\ UNCHANGED <<dbVars, latestLivestream, now, supervisorVars, monitors>>

Runs == DOMAIN report_runs

\* return fmt.Errorf(err + ": %w", cause): the run is over, the error logged.
Fail(run, err, cause) ==
    [run EXCEPT !.pc = "failed", !.err = err, !.cause = cause]

\* The monitored channels that have a snapshot of the livestream.
ChannelsOfLivestream(id) ==
    {c \in monitored_channels :
        \E d \in livestream_data :
            d.LivestreamID = id /\ d.ChannelID = c.ChannelID}

\* Where("channel_id IN (?)", subQuery).First(&monitoredChannel): the first
\* by primary key.
RunFindChannel(r, dbOk) ==
    LET run == report_runs[r]
        found == ChannelsOfLivestream(run.livestreamID)
    IN  /\ run.pc = "start"
        /\ report_runs' = [report_runs EXCEPT ![r] =
               IF ~dbOk
               THEN Fail(run, "failed to find channel", "db_error")
               ELSE IF found = {}
               THEN Fail(run, "failed to find channel", "record not found")
               ELSE [run EXCEPT !.pc = "start_time",
                                !.monitoredChannel =
                                    CHOOSE c \in found :
                                        \A d \in found : c.ChannelID <= d.ChannelID]]
        /\ UNCHANGED <<dbVars, latestLivestream, now, supervisorVars, monitors,
                       report_resp>>

\* Select("start_time").Where("livestream_id = ?").Order("start_time ASC")
\* .Limit(1): the least start_time of the livestream's snapshots, a zero one
\* included; over no rows Scan leaves the zero value.
StartTimeOf(id) ==
    LET starts == {d.StartTime : d \in {x \in livestream_data : x.LivestreamID = id}}
    IN  IF starts = {} THEN ZeroTime
        ELSE CHOOSE t \in starts : \A u \in starts : t <= u

\* The start_time query on livestream_data.
RunStartTime(r, dbOk) ==
    LET run == report_runs[r]
    IN  /\ run.pc = "start_time"
        /\ report_runs' = [report_runs EXCEPT ![r] =
               IF dbOk
               THEN [run EXCEPT !.pc = "window",
                                !.streamActualStartTime =
                                    StartTimeOf(run.livestreamID)]
               ELSE Fail(run, "failed to get actual stream start_time", "db_error")]
        /\ UNCHANGED <<dbVars, latestLivestream, now, supervisorVars, monitors,
                       report_resp>>

ChatMessagesOf(id) == {m \in chat_messages : m.LivestreamID = <<id>>}

\* row.Scan(&minMessageTime, &maxMessageTime) errs: the query failed, or
\* MIN and MAX over no rows are NULL.  minMessageTime is then still zero.
ScanFailsOnError(messages, dbOk) == ~dbOk

ScanFails(messages, dbOk) == ~dbOk \/ messages = {}

\* if streamActualStartTime.IsZero() || streamActualStartTime.After(reportStartTime)
\*     { streamActualStartTime = reportStartTime }
\* The variable is not read after this.
ActualStartTime(streamActualStartTime, reportStartTime) ==
    IF streamActualStartTime = ZeroTime \/ streamActualStartTime > reportStartTime
    THEN reportStartTime
    ELSE streamActualStartTime

\* SELECT MIN(message_send_time), MAX(message_send_time)
RunWindow(r, dbOk) ==
    LET run == report_runs[r]
        messages == ChatMessagesOf(run.livestreamID)
    IN  /\ run.pc = "window"
        /\ report_runs' = [report_runs EXCEPT ![r] =
               IF ScanFails(messages, dbOk)
               THEN Fail(run, "no chat messages",
                         IF dbOk THEN "converting NULL" ELSE "db_error")
               ELSE [run EXCEPT !.pc = "fetch",
                                !.reportStartTime =
                                    ReportStartTime(MinMessageTime(messages)),
                                !.reportEndTime =
                                    ReportEndTime(MaxMessageTime(messages)),
                                !.streamActualStartTime =
                                    ActualStartTime(@, ReportStartTime(
                                        MinMessageTime(messages)))]]
        /\ UNCHANGED <<dbVars, latestLivestream, now, supervisorVars, monitors,
                       report_resp>>

\* The rows of a query with ORDER BY, as the set of the orders it may
\* return: pairs holds <<key, row>>, and rows of equal key come in any order.
RECURSIVE OrderedBy(_)
OrderedBy(pairs) ==
    IF pairs = {}
    THEN {<<>>}
    ELSE LET least == {p \in pairs : \A q \in pairs : p[1] <= q[1]}
         IN  UNION {{<<p[2]>> \o rest : rest \in OrderedBy(pairs \ {p})} :
                        p \in least}

\* Order("message_send_time ASC")
BySendTime(messages) == OrderedBy({<<m.MessageSendTime, m>> : m \in messages})

\* Where("channel_id = ? AND created_at >= ? AND created_at <= ?", ...)
ViewerCountsOf(channelID, reportStartTime, reportEndTime) ==
    {d \in livestream_data :
        /\ d.ChannelID = channelID
        /\ d.CreatedAt >= reportStartTime - ReportTimeBlock
        /\ d.CreatedAt <= reportEndTime + ReportTimeBlock}

\* userMessageHistory: the messages of each sender, sorted by send time
\* with sort.Slice, which keeps no order among equal times.
UserMessageHistories(chatMessages) ==
    LET messages == {chatMessages[i] : i \in DOMAIN chatMessages}
        senders == {m.SenderID : m \in messages}
        of(id) == BySendTime({m \in messages : m.SenderID = id})
    IN  {h \in [senders -> UNION {of(id) : id \in senders}] :
            \A id \in senders : h[id] \in of(id)}

\* The chat messages and the viewer counts are read, and the spam analysis
\* runs on the goroutine's copies.  A Go map is ranged over in any order.
RunFetch(r, dbOk) ==
    LET run == report_runs[r]
        messages == ChatMessagesOf(run.livestreamID)
        snapshots == ViewerCountsOf(run.monitoredChannel.ChannelID,
                                    run.reportStartTime, run.reportEndTime)
        senders == {m.SenderID : m \in messages}
    IN  /\ run.pc = "fetch"
        /\ IF dbOk
           THEN \E chatMessages \in BySendTime(messages),
                   viewerCounts \in OrderedBy({<<d.CreatedAt, d>> : d \in snapshots}),
                   bursts \in SetToSeqs(senders),
                   usernames \in SetToSeqs(senders) :
                    \E userMessageHistory \in UserMessageHistories(chatMessages) :
                        report_runs' = [report_runs EXCEPT ![r] =
                            [run EXCEPT
                                !.pc = "save_spam",
                                !.chatMessages = chatMessages,
                                !.viewerCounts = viewerCounts,
                                !.userMessageHistory = userMessageHistory,
                                !.metrics = SpamAnalysis(
                                    MessageWorkers(NewReportMetrics,
                                                   chatMessages, 1),
                                    userMessageHistory, bursts, usernames)]]
           ELSE report_runs' = [report_runs EXCEPT ![r] =
                    Fail(run, "failed to fetch", "db_error")]
        /\ UNCHANGED <<dbVars, latestLivestream, now, supervisorVars, monitors,
                       report_resp>>

\* numWorkers := 4
numWorkers == 4

\* The two queries of RunFetch, then the channel is filled and closed and
\* the workers are started: wg.Add(1) and `go func()` for each.
RunStartWorkers(r, dbOk) ==
    LET run == report_runs[r]
        messages == ChatMessagesOf(run.livestreamID)
        snapshots == ViewerCountsOf(run.monitoredChannel.ChannelID,
                                    run.reportStartTime, run.reportEndTime)
    IN  /\ run.pc = "fetch"
        /\ IF dbOk
           THEN \E chatMessages \in BySendTime(messages),
                   viewerCounts \in OrderedBy({<<d.CreatedAt, d>> : d \in snapshots}) :
                    report_runs' = [report_runs EXCEPT ![r] =
                        [run EXCEPT
                            !.pc = "workers",
                            !.chatMessages = chatMessages,
                            !.viewerCounts = viewerCounts,
                            !.metrics = NewReportMetrics,
                            !.messageProcessingChan = chatMessages,
                            !.workers = [w \in 1..numWorkers |->
                                            [pc |-> "recv", msg |-> <<>>,
                                             metrics |-> NewReportMetrics]],
                            !.wg = numWorkers]]
           ELSE report_runs' = [report_runs EXCEPT ![r] =
                    Fail(run, "failed to fetch", "db_error")]
        /\ UNCHANGED <<dbVars, latestLivestream, now, supervisorVars, monitors,
                       report_resp>>

\* `for msg := range messageProcessingChan`: worker w takes the next
\* message, or finds the channel closed and empty and runs wg.Done().
WorkerReceive(r, w) ==
    LET run == report_runs[r]
    IN  /\ run.pc = "workers"
        /\ run.workers[w].pc = "recv"
        /\ report_runs' = [report_runs EXCEPT ![r] =
               IF run.messageProcessingChan # <<>>
               THEN [run EXCEPT
                        !.messageProcessingChan = Tail(@),
                        !.workers[w].pc = "lock",
                        !.workers[w].msg = <<Head(run.messageProcessingChan)>>]
               ELSE [run EXCEPT !.workers[w].pc = "done", !.wg = @ - 1]]
        /\ UNCHANGED <<dbVars, latestLivestream, now, supervisorVars, monitors,
                       report_resp>>

\* metrics.Lock() returns once no worker holds the mutex; the worker then
\* reads the metrics.  WorkerLockUnlocked does not wait.
WorkerLockUnlocked(r, w) ==
    LET run == report_runs[r]
    IN  /\ run.pc = "workers"
        /\ run.workers[w].pc = "lock"
        /\ report_runs' = [report_runs EXCEPT ![r] =
               [run EXCEPT !.mutex = w,
                           !.workers[w].pc = "update",
                           !.workers[w].metrics = run.metrics]]
        /\ UNCHANGED <<dbVars, latestLivestream, now, supervisorVars, monitors,
                       report_resp>>

WorkerLock(r, w) ==
    LET run == report_runs[r]
    IN  /\ run.pc = "workers"
        /\ run.workers[w].pc = "lock"
        /\ run.mutex = 0
        /\ report_runs' = [report_runs EXCEPT ![r] =
               [run EXCEPT !.mutex = w,
                           !.workers[w].pc = "update",
                           !.workers[w].metrics = run.metrics]]
        /\ UNCHANGED <<dbVars, latestLivestream, now, supervisorVars, monitors,
                       report_resp>>

\* The updates of processSingleMessage are written, and the deferred
\* metrics.Unlock() runs.
WorkerUpdate(r, w) ==
    LET run == report_runs[r]
    IN  /\ run.pc = "workers"
        /\ run.workers[w].pc = "update"
        /\ report_runs' = [report_runs EXCEPT ![r] =
               [run EXCEPT
                   !.metrics = processSingleMessage(run.workers[w].metrics,
                                                    run.workers[w].msg[1]),
                   !.mutex = 0,
                   !.workers[w] = [pc |-> "recv", msg |-> <<>>,
                                   metrics |-> NewReportMetrics]]]
        /\ UNCHANGED <<dbVars, latestLivestream, now, supervisorVars, monitors,
                       report_resp>>

\* wg.Wait() returns once every worker is done; the spam analysis of
\* RunFetch follows on the metrics the workers left.
RunAnalyse(r) ==
    LET run == report_runs[r]
        senders == {run.chatMessages[i].SenderID : i \in DOMAIN run.chatMessages}
    IN  /\ run.pc = "workers"
        /\ run.wg = 0
        /\ \E bursts \in SetToSeqs(senders), usernames \in SetToSeqs(senders) :
              \E userMessageHistory \in UserMessageHistories(run.chatMessages) :
                  report_runs' = [report_runs EXCEPT ![r] =
                      [run EXCEPT
                          !.pc = "save_spam",
                          !.userMessageHistory = userMessageHistory,
                          !.metrics = SpamAnalysis(run.metrics, userMessageHistory,
                                                   bursts, usernames)]]
        /\ UNCHANGED <<dbVars, latestLivestream, now, supervisorVars, monitors,
                       report_resp>>

\* models.SpamReport and models.LivestreamReport of run r.  uuid.New() is
\* modelled by the run's index: no two runs draw the same id.
SpamReport(r, run, livestreamReportID) ==
    [ID |-> r, LivestreamReportID |-> livestreamReportID,
     ChannelID |-> run.monitoredChannel.ChannelID,
     LivestreamID |-> run.livestreamID,
     DuplicateMessagesCount |->
         LET contents == run.metrics.ExactDuplicateContents
             RECURSIVE totalExactDuplicates(_)
             totalExactDuplicates(keys) ==
                 IF keys = {}
                 THEN 0
                 ELSE LET key == CHOOSE k \in keys : TRUE
                      IN  (IF contents[key] > 1 THEN contents[key] - 1 ELSE 0)
                              + totalExactDuplicates(keys \ {key})
         IN  totalExactDuplicates(DOMAIN contents),
     ExactDuplicateBursts |-> run.metrics.ExactDuplicateBursts,
     SimilarMessageBursts |-> run.metrics.SimilarMessageBursts,
     SuspiciousChatters |-> run.metrics.SuspiciousChattersList,
     MessagesWithEmotes |-> run.metrics.MessagesWithEmotes,
     MessagesMultipleEmotesOnly |-> run.metrics.MessagesMultipleEmotesOnly]

LivestreamReport(r, run) ==
    [ID |-> r, LivestreamID |-> run.livestreamID,
     ChannelID |-> run.monitoredChannel.ChannelID,
     Username |-> run.monitoredChannel.Username,
     ReportStartTime |-> run.reportStartTime,
     ReportEndTime |-> run.reportEndTime,
     DurationMinutes |-> DurationMinutes(run.reportStartTime, run.reportEndTime),
     TotalMessages |-> Len(run.chatMessages),
     AverageViewers |-> calculateViewerAnalytics(run.viewerCounts).average,
     PeakViewers |-> calculateViewerAnalytics(run.viewerCounts).peak,
     LowestViewers |-> calculateViewerAnalytics(run.viewerCounts).lowest,
     UniqueChatters |-> Cardinality(run.metrics.UniqueChatters),
     MessagesFromApps |-> run.metrics.MessagesFromApps,
     ViewerCountsTimeline |->
         buildViewerCountTimeline(run.viewerCounts, run.reportStartTime,
                                  run.reportEndTime),
     MessageCountsTimeline |->
         buildMessageCountTimeline(run.chatMessages, run.reportStartTime,
                                   run.reportEndTime),
     SpamReportID |-> <<r>>]

\* db.DB.Create(&spamReport), LivestreamReportID still uuid.Nil.
RunSaveSpam(r, dbOk) ==
    LET run == report_runs[r]
    IN  /\ run.pc = "save_spam"
        /\ IF dbOk
           THEN /\ spam_reports' = spam_reports \cup {SpamReport(r, run, 0)}
                /\ report_runs' = [report_runs EXCEPT ![r].pc = "save_report"]
           ELSE /\ report_runs' = [report_runs EXCEPT ![r] =
                       Fail(run, "failed to save spam report", "db_error")]
                /\ UNCHANGED spam_reports
        /\ UNCHANGED <<monitored_channels, channel_data, livestream_data,
                       chat_messages, streamer_profiles, livestream_reports,
                       latestLivestream, now, supervisorVars, monitors,
                       report_resp>>

\* RunSaveReportRollback deletes the run's spam report when the insert of
\* the report fails.
RunSaveReportRollback(r, dbOk) ==
    LET run == report_runs[r]
    IN  /\ run.pc = "save_report"
        /\ IF dbOk
           THEN /\ livestream_reports' =
                       livestream_reports \cup {LivestreamReport(r, run)}
                /\ report_runs' = [report_runs EXCEPT ![r].pc = "profile"]
                /\ UNCHANGED spam_reports
           ELSE /\ report_runs' = [report_runs EXCEPT ![r] =
                       Fail(run, "failed to save livestream report", "db_error")]
                /\ spam_reports' = {x \in spam_reports : x.ID # r}
                /\ UNCHANGED livestream_reports
        /\ UNCHANGED <<monitored_channels, channel_data, livestream_data,
                       chat_messages, streamer_profiles,
                       latestLivestream, now, supervisorVars, monitors,
                       report_resp>>

\* db.DB.Create(&report)
RunSaveReport(r, dbOk) ==
    LET run == report_runs[r]
    IN  /\ run.pc = "save_report"
        /\ IF dbOk
           THEN /\ livestream_reports' =
                       livestream_reports \cup {LivestreamReport(r, run)}
                /\ report_runs' = [report_runs EXCEPT ![r].pc = "profile"]
           ELSE /\ report_runs' = [report_runs EXCEPT ![r] =
                       Fail(run, "failed to save livestream report", "db_error")]
                /\ UNCHANGED livestream_reports
        /\ UNCHANGED <<monitored_channels, channel_data, livestream_data,
                       chat_messages, streamer_profiles, spam_reports,
                       latestLivestream, now, supervisorVars, monitors,
                       report_resp>>

\* UpdateStreamerProfileLivestreams on the table profiles: with no row of
\* the channel nothing is written; with the id in the row's list the row is
\* left as it is; else the id is appended and the row saved.
\* UpdateStreamerProfileLivestreamsAlways appends whether the id is there or not.
UpdateStreamerProfileLivestreamsAlways(profiles, ChannelID, newReportUUID) ==
    {IF p.ChannelID = ChannelID
     THEN [p EXCEPT !.Livestreams = Append(@, newReportUUID)]
     ELSE p : p \in profiles}

UpdateStreamerProfileLivestreams(profiles, ChannelID, newReportUUID) ==
    {IF p.ChannelID = ChannelID /\ ~Contains(p.Livestreams, newReportUUID)
     THEN [p EXCEPT !.Livestreams = Append(@, newReportUUID)]
     ELSE p : p \in profiles}

\* UpdateStreamerProfileLivestreams: append the report's id to the list of
\* the channel's profile, if there is a profile and the id is not in it.
\* Its error is logged; the run goes on.
RunUpdateProfile(r, dbOk) ==
    LET run == report_runs[r]
        id == run.monitoredChannel.ChannelID
    IN  /\ run.pc = "profile"
        /\ streamer_profiles' =
               IF dbOk
               THEN UpdateStreamerProfileLivestreams(streamer_profiles, id, r)
               ELSE streamer_profiles
        /\ report_runs' = [report_runs EXCEPT ![r].pc = "back_patch"]
        /\ UNCHANGED <<monitored_channels, channel_data, livestream_data,
                       chat_messages, livestream_reports, spam_reports,
                       latestLivestream, now, supervisorVars, monitors,
                       report_resp>>

\* spamReport.LivestreamReportID = report.ID; db.DB.Save(&spamReport).
\* A failure is logged; the run returns nil.
RunBackPatch(r, dbOk) ==
    LET run == report_runs[r]
    IN  /\ run.pc = "back_patch"
        /\ spam_reports' =
               IF dbOk
               THEN {x \in spam_reports : x.ID # r} \cup {SpamReport(r, run, r)}
               ELSE spam_reports
        /\ report_runs' = [report_runs EXCEPT ![r].pc = "done"]
        /\ UNCHANGED <<monitored_channels, channel_data, livestream_data,
                       chat_messages, streamer_profiles, livestream_reports,
                       latestLivestream, now, supervisorVars, monitors,
                       report_resp>>

\* One step of GenerateLivestreamReport in run r.
GenerateLivestreamReport(r) ==
    \E dbOk \in BOOLEAN :
        \/ RunFindChannel(r, dbOk)
        \/ RunStartTime(r, dbOk)
        \/ RunWindow(r, dbOk)
        \/ RunFetch(r, dbOk)
        \/ RunSaveSpam(r, dbOk)
        \/ RunSaveReport(r, dbOk)
        \/ RunUpdateProfile(r, dbOk)
        \/ RunBackPatch(r, dbOk)

(***************************************************************************)
(* SpecAttribution: one monitored channel under a running clock.           *)
(***************************************************************************)
TickSteps == {60, 80, 81}

AttributionLivestreams == {KickLivestream(9, TRUE), KickLivestream(9, FALSE)}

AttributionFrames(ch) ==
    {Frame("ChatMessageEvent", TRUE, TRUE, id, ch.ChatroomID) : id \in {1, 2}}
        \cup {Frame("ChatMessageEvent", d, u, 1, ch.ChatroomID) :
                 d \in BOOLEAN, u \in BOOLEAN}
        \cup {Frame(e, TRUE, TRUE, 1, ch.ChatroomID) :
                 e \in {"pusher_internal:subscription_succeeded", "other"}}

InitAttribution ==
    InitWith({ChannelRow(1, "alice", TRUE), ChannelRow(2, "bob", FALSE)},
             {}, {}, {})

Startup ==
    \/ \E dbOk \in BOOLEAN : MainLoad(dbOk)
    \/ MainLaunch
    \/ MainServe
    \/ \E m \in Monitors : StartMonitoringChannel(m)

NextAttribution ==
    \/ Startup
    \/ \E m \in Monitors :
          \E out \in FetchOutcomes(FetchFailures,
                                    ChannelPayloads(monitors[m].channel.Username,
                                                    AttributionLivestreams)),
             dbOk \in BOOLEAN : PollFetch(m, out, dbOk)
    \/ \E m \in Monitors, dbOk \in BOOLEAN : PollLivestream(m, dbOk)
    \/ \E m \in Monitors : PollStore(m)
    \/ \E m \in Monitors, dbOk \in BOOLEAN, pluckOk \in BOOLEAN :
          PollProfile(m, dbOk, pluckOk)
    \/ \E m \in Monitors, dbOk \in BOOLEAN : PollSaveProfile(m, dbOk)
    \/ \E m \in Monitors : PollTicker(m)
    \/ \E m \in Monitors, dialOk \in BOOLEAN, writeOk \in BOOLEAN :
          WsDial(m, dialOk, writeOk)
    \/ \E m \in Monitors : WsReadError(m)
    \/ \E m \in Monitors :
          \E f \in AttributionFrames(monitors[m].channel) : WsHandle(m, f)
    \/ \E m \in Monitors, dbOk \in BOOLEAN : WsPersist(m, dbOk)
    \/ \E d \in TickSteps : Tick(d)

SpecAttribution == InitAttribution /\ [][NextAttribution]_vars

(***************************************************************************)
(* SpecPoller: the poller of SpecAttribution alone, tick after tick, with  *)
(* every failure of the fetch and of the database.                         *)
(***************************************************************************)
NextPoller ==
    \/ Startup
    \/ \E m \in Monitors :
          \E out \in FetchOutcomes(FetchFailures,
                                    ChannelPayloads(monitors[m].channel.Username,
                                                    AttributionLivestreams)),
             dbOk \in BOOLEAN : PollFetch(m, out, dbOk)
    \/ \E m \in Monitors, dbOk \in BOOLEAN : PollLivestream(m, dbOk)
    \/ \E m \in Monitors : PollStore(m)
    \/ \E m \in Monitors, dbOk \in BOOLEAN, pluckOk \in BOOLEAN :
          PollProfile(m, dbOk, pluckOk)
    \/ \E m \in Monitors, dbOk \in BOOLEAN : PollSaveProfile(m, dbOk)
    \/ \E m \in Monitors : PollTicker(m)

SpecPoller == InitAttribution /\ [][NextPoller]_vars

(***************************************************************************)
(* SpecMonitor: two monitored channels, their pollers and subscribers      *)
(* interleaved; both channels may report the same livestream id.  The      *)
(* inserts that decide attribution (LivestreamData, ChatMessage) may fail; *)
(* failures of the ChannelData insert, of the profile upsert and of the    *)
(* dial are inputs of SpecAttribution only.                                *)
(***************************************************************************)
MonitorLivestreams == {KickLivestream(9, TRUE)}

MonitorFrames(ch) == {Frame("ChatMessageEvent", TRUE, TRUE, 1, ch.ChatroomID)}

InitMonitor ==
    InitWith({ChannelRow(1, "alice", TRUE), ChannelRow(2, "bob", TRUE)},
             {}, {}, {})

NextMonitor ==
    \/ Startup
    \/ \E m \in Monitors :
          \E out \in FetchOutcomes({"non_ok_status"},
                                    ChannelPayloads(monitors[m].channel.Username,
                                                    MonitorLivestreams)) :
              PollFetch(m, out, TRUE)
    \/ \E m \in Monitors, dbOk \in BOOLEAN : PollLivestream(m, dbOk)
    \/ \E m \in Monitors : PollStore(m)
    \/ \E m \in Monitors : PollProfile(m, TRUE, TRUE)
    \/ \E m \in Monitors : PollSaveProfile(m, TRUE)
    \/ \E m \in Monitors : PollTicker(m)
    \/ \E m \in Monitors : WsDial(m, TRUE, TRUE)
    \/ \E m \in Monitors : WsReadError(m)
    \/ \E m \in Monitors :
          \E f \in MonitorFrames(monitors[m].channel) : WsHandle(m, f)
    \/ \E m \in Monitors, dbOk \in BOOLEAN : WsPersist(m, dbOk)

SpecMonitor == InitMonitor /\ [][NextMonitor]_vars

(***************************************************************************)
(* SpecSupervisor: the startup scan over any stored set of channels, then  *)
(* add-or-reactivate commands served by two workers.  Monitors are         *)
(* launched and started; their ticks are in SpecLifecycle.                 *)
(***************************************************************************)
\* The rows earlier runs may have left: each of alice and bob is absent,
\* active or inactive; carol, whom no request names, is absent or active.
StoredChannels ==
    {{ChannelRow(1, "alice", a) : a \in as} \cup
     {ChannelRow(2, "bob", b) : b \in bs} \cup
     {ChannelRow(3, "carol", c) : c \in cs} :
        as \in {{}, {TRUE}, {FALSE}}, bs \in {{}, {TRUE}, {FALSE}},
        cs \in {{}, {TRUE}}}

InitSupervisor == \E chs \in StoredChannels : InitWith(chs, {}, {}, {})

\* Answers of the channel endpoint to the handler: a failure, the channel,
\* or a payload without chatroom.
HandlerFetchOutcomes(username) ==
    FetchOutcomes({"non_ok_status"},
                  ChannelPayloads(username, {}) \cup
                      {KickData(PlatformChannelID(username), <<>>, <<>>)})

AddChannelHandler(names) ==
    \/ \E h \in Handlers, u \in names, a \in BOOLEAN, bindOk \in BOOLEAN :
          NewRequest(h, u, a, bindOk)
    \/ \E h \in Handlers, dbOk \in BOOLEAN : AddLookup(h, dbOk)
    \/ \E h \in Handlers, dbOk \in BOOLEAN : AddExisting(h, dbOk)
    \/ \E h \in Handlers :
          \E out \in HandlerFetchOutcomes(handlers[h].req.Username) : AddFetch(h, out)
    \/ \E h \in Handlers, dbOk \in BOOLEAN : AddDoubleCheck(h, dbOk)
    \/ \E h \in Handlers, dbOk \in BOOLEAN : AddInsert(h, dbOk)

NextSupervisor ==
    \/ Startup
    \/ AddChannelHandler(Usernames)

SpecSupervisor == InitSupervisor /\ [][NextSupervisor]_vars

(***************************************************************************)
(* SpecLifecycle: one stored active channel, its monitor at work, and      *)
(* commands that deactivate and reactivate it.  The database and the       *)
(* transport fail in SpecAttribution and SpecMonitor; here only the        *)
(* handler's queries may fail.                                             *)
(***************************************************************************)
InitLifecycle == InitWith({ChannelRow(1, "alice", TRUE)}, {}, {}, {})

NextLifecycle ==
    \/ Startup
    \/ \E h \in Handlers, a \in BOOLEAN : NewRequest(h, "alice", a, TRUE)
    \/ \E h \in Handlers, dbOk \in BOOLEAN : AddLookup(h, dbOk)
    \/ \E h \in Handlers, dbOk \in BOOLEAN : AddExisting(h, dbOk)
    \/ \E m \in Monitors :
          \E out \in FetchOutcomes({"non_ok_status"},
                                    ChannelPayloads(monitors[m].channel.Username,
                                                    MonitorLivestreams)) :
              PollFetch(m, out, TRUE)
    \/ \E m \in Monitors : PollLivestream(m, TRUE)
    \/ \E m \in Monitors : PollStore(m)
    \/ \E m \in Monitors : PollProfile(m, TRUE, TRUE)
    \/ \E m \in Monitors : PollSaveProfile(m, TRUE)
    \/ \E m \in Monitors : PollTicker(m)
    \/ \E m \in Monitors : WsDial(m, TRUE, TRUE)
    \/ \E m \in Monitors : WsReadError(m)
    \/ \E m \in Monitors :
          \E f \in MonitorFrames(monitors[m].channel) : WsHandle(m, f)
    \/ \E m \in Monitors : WsPersist(m, TRUE)

SpecLifecycle == InitLifecycle /\ [][NextLifecycle]_vars

(***************************************************************************)
(* SpecSubscriber: the chat subscriber of one channel in its first         *)
(* seconds, before the poller's first fetch has returned: dials and        *)
(* subscribe writes that fail, reads that fail, frames that are chat       *)
(* messages or not, and inserts that fail, under a clock that advances by  *)
(* 1 s or 4 s.  The subscriber's thread is never blocked for ever: time    *)
(* passes until the end of the clock.                                      *)
(***************************************************************************)
\* Chat messages 1 and 2, chat message 3 whose created_at does not parse,
\* a chat message whose data does not decode and one whose id is no UUID.
SubscriberFrames(ch) ==
    {ChatFrame(id, ch.ChatroomID, [ID |-> 2, Slug |-> <<"b", "o", "b">>],
               <<"g", "g">>, 5) : id \in {1, 2}}
        \cup {ChatFrame(3, ch.ChatroomID, [ID |-> 2, Slug |-> <<"b", "o", "b">>],
                        <<"g", "g">>, ZeroTime),
              Frame("ChatMessageEvent", FALSE, TRUE, 4, ch.ChatroomID),
              Frame("ChatMessageEvent", TRUE, FALSE, 5, ch.ChatroomID)}

NextSubscriber ==
    \/ Startup
    \/ \E m \in Monitors, dialOk \in BOOLEAN, writeOk \in BOOLEAN :
          WsDial(m, dialOk, writeOk)
    \/ \E m \in Monitors : WsReadError(m)
    \/ \E m \in Monitors :
          \E f \in SubscriberFrames(monitors[m].channel) : WsHandle(m, f)
    \/ \E m \in Monitors, dbOk \in BOOLEAN : WsPersist(m, dbOk)
    \/ \E d \in {1, 4} : now + d <= MaxSleepTime /\ Tick(d)

SpecSubscriber == InitLifecycle /\ [][NextSubscriber]_vars

SpecSubscriberFair ==
    /\ SpecSubscriber
    /\ WF_vars(\E d \in {1, 4} : now + d <= MaxSleepTime /\ Tick(d))

(***************************************************************************)
(* SpecReport: report commands on a database that holds, or not, a         *)
(* snapshot of livestream 9, chat messages of it, and alice's profile.     *)
(* A started run is a goroutine the scheduler keeps running, and every     *)
(* database call returns: each run is weakly fair.                         *)
(***************************************************************************)
\* A stored chat message; one that carries a livestream id has a snapshot.
StoredChat(id, livestreamID, sendTime) ==
    ChatMessage(id, PlatformChatroomID(1), livestreamID, 1, 1,
                <<"v", "i", "e", "w", "e", "r">>, <<"h", "i">>, sendTime)

InitReport ==
    \E snapshots \in SUBSET {LivestreamData(1, 9, 40, 180)},
       chats \in SUBSET {StoredChat(1, <<9>>, 195), StoredChat(2, <<>>, 200)},
       profiles \in SUBSET {[ChannelID |-> 1, Username |-> "alice",
                             Livestreams |-> <<>>]} :
        /\ \A m \in chats :
               m.LivestreamID # <<>> =>
                   \E d \in snapshots : d.LivestreamID = m.LivestreamID[1]
        /\ InitWith({ChannelRow(1, "alice", TRUE)}, snapshots, chats, profiles)

\* Livestream ids a request may carry: none, an unknown one, a known one.
RequestedLivestreamIDs == {0, 7, 9}

NextReport ==
    \/ Startup
    \/ \E bindOk \in BOOLEAN, id \in RequestedLivestreamIDs :
          ProcessLivestreamReportHandler(bindOk, id)
    \/ \E r \in Runs : GenerateLivestreamReport(r)

SpecReport ==
    /\ InitReport
    /\ [][NextReport]_vars
    /\ \A r \in 1..MaxReportRequests : WF_vars(r \in Runs /\ GenerateLivestreamReport(r))

(***************************************************************************)
(* SpecProfile: alice's poller rebuilds her profile while reports are      *)
(* generated for two of her livestreams: 8, whose chat lies in the block   *)
(* starting at 600, and 9, whose chat lies in the block starting at 0.     *)
(***************************************************************************)
InitProfile ==
    \E profiles \in SUBSET {[ChannelID |-> 1, Username |-> "alice",
                              Livestreams |-> <<>>]} :
        InitWith({ChannelRow(1, "alice", TRUE)},
                 {LivestreamData(1, 8, 40, 660), LivestreamData(1, 9, 40, 60)},
                 {StoredChat(1, <<8>>, 700), StoredChat(2, <<9>>, 100)},
                 profiles)

NextProfile ==
    \/ Startup
    \/ \E m \in Monitors :
          \E out \in FetchOutcomes({"non_ok_status"},
                                    ChannelPayloads(monitors[m].channel.Username, {})) :
              PollFetch(m, out, TRUE)
    \/ \E m \in Monitors : PollLivestream(m, TRUE)
    \/ \E m \in Monitors, pluckOk \in BOOLEAN : PollProfile(m, TRUE, pluckOk)
    \/ \E m \in Monitors : PollSaveProfile(m, TRUE)
    \/ \E m \in Monitors : PollTicker(m)
    \/ \E id \in {8, 9} : ProcessLivestreamReportHandler(TRUE, id)
    \/ \E r \in Runs : GenerateLivestreamReport(r)

SpecProfile == InitProfile /\ [][NextProfile]_vars

(***************************************************************************)
(* SpecWindow: reports of livestream 9, whose snapshots carry a start_time *)
(* that did not parse, one before the first chat message's 10 minutes      *)
(* (300), or one after (1250); the chat messages were sent at 650 or 1300. *)
(***************************************************************************)
InitWindow ==
    \E snapshots \in SUBSET {StartedLivestreamData(1, 9, 40, 700, s) :
                                s \in {ZeroTime, 300, 1250}},
       chats \in SUBSET {StoredChat(1, <<9>>, 650), StoredChat(2, <<9>>, 1300)} :
        /\ snapshots # {}
        /\ chats # {}
        /\ InitWith({ChannelRow(1, "alice", TRUE)}, snapshots, chats, {})

NextWindow ==
    \/ Startup
    \/ ProcessLivestreamReportHandler(TRUE, 9)
    \/ \E r \in Runs : GenerateLivestreamReport(r)

SpecWindow == InitWindow /\ [][NextWindow]_vars

(***************************************************************************)
(* SpecAnalysis: one report is generated for livestream 9 of a channel     *)
(* that is no longer monitored, from chat the subscriber stored earlier.   *)
(* Send times are seconds on the platform's clock; 600 stands for 12:00:00 *)
(* of the spec's scenarios.  Sender 1 wrote up to five messages within     *)
(* 3 s from 603 on, two of them in the same second, "hi" at 795            *)
(* (12:03:15) and a second volley from 900 on; sender 2 wrote the first k  *)
(* of five messages, four of them permutations of three words, and "Hi "   *)
(* at 3462 (12:47:42).                                                     *)
(* Sender 1 is eve, or Winner, a handle the username checker accepts.      *)
(***************************************************************************)
AnalysedChat(id, sender, message, sendTime) ==
    ChatMessage(id, PlatformChatroomID(1), <<9>>, 1, sender.ID, sender.Slug,
                message, sendTime)

\* Sender 1: the volley from 603 on, with a message that is no duplicate
\* between duplicates and two messages in one second.
FirstVolley(sender) ==
    {AnalysedChat(1, sender, <<"G", "G">>, 603),
     AnalysedChat(2, sender, <<"g", "g", " ", " ">>, 604),
     AnalysedChat(3, sender, <<"g", "l">>, 605),
     AnalysedChat(4, sender, <<"G", "G">>, 606),
     AnalysedChat(5, sender, <<" ", "g", "G">>, 606)}

SecondVolley(sender) ==
    {AnalysedChat(10 + k, sender, <<"g", "o", " ", <<"a", "b", "c", "d">>[k]>>,
                  899 + k) : k \in 1..4}
        \cup {AnalysedChat(15, sender, <<"g", "o">>, 903)}

\* Sender 2, bob: the first k of four permutations of three words and a
\* message of two of the words, every 2 s from 800 on.
SenderTwo(k) ==
    LET buy == <<"b", "u", "y">>
        nw == <<"n", "o", "w">>
        link == <<"l", "i", "n", "k">>
        lines == <<<<buy, nw, link>>, <<buy, link, nw>>, <<nw, buy, link>>,
                   <<link, buy, nw>>, <<buy, nw>>>>
    IN  {AnalysedChat(20 + i, [ID |-> 2, Slug |-> <<"b", "o", "b">>],
                      Join(lines[i], <<" ">>), 798 + 2 * i) : i \in 1..k}

\* The inputs vary one part at a time: the volleys of sender 1, or the
\* messages of sender 2, or the ends of the window and the snapshots in it.
Scenario(first, second, edges, k, snapshots) ==
    \/ k = 0 /\ edges = {} /\ snapshots = {}
    \/ Cardinality(first) \in {0, 5} /\ ~second /\ edges = {} /\ snapshots = {}
    \/ Cardinality(first) <= 1 /\ ~second /\ k = 0

InitAnalysis ==
    \E slug \in {<<"e", "v", "e">>, <<"W", "i", "n", "n", "e", "r">>},
       first \in SUBSET FirstVolley([ID |-> 1, Slug |-> <<>>]),
       second \in BOOLEAN,
       edges \in SUBSET {795, 3462},
       k \in {0, 3, 4, 5},
       snapshots \in SUBSET {LivestreamData(1, 9, 40, 700)} :
        LET sender == [ID |-> 1, Slug |-> slug]
            chats ==
                {AnalysedChat(m.ID, sender, m.Message, m.MessageSendTime) :
                    m \in first}
                \cup (IF second THEN SecondVolley(sender) ELSE {})
                \cup {AnalysedChat(31, sender, <<"h", "i">>, t) :
                         t \in edges \cap {795}}
                \cup {AnalysedChat(30, [ID |-> 2, Slug |-> <<"b", "o", "b">>],
                                    <<"H", "i", " ">>, t) :
                         t \in edges \cap {3462}}
                \cup SenderTwo(k)
        IN  /\ Scenario(first, second, edges, k, snapshots)
            /\ InitWith({ChannelRow(1, "alice", FALSE)},
                        {LivestreamData(1, 9, 30, 475)} \cup snapshots,
                        chats,
                        {[ChannelID |-> 1, Username |-> "alice",
                          Livestreams |-> <<>>]})

NextAnalysis ==
    \/ MainLoad(TRUE)
    \/ MainServe
    \/ Runs = {} /\ ProcessLivestreamReportHandler(TRUE, 9)
    \/ \E r \in Runs : GenerateLivestreamReport(r)

SpecAnalysis == InitAnalysis /\ [][NextAnalysis]_vars

(***************************************************************************)
(* SpecText: the report of SpecAnalysis for a sender who wrote two         *)
(* messages a second apart, their bodies any strings of at most MaxLen     *)
(* characters over two letters and the blank.                              *)
(***************************************************************************)
InitText ==
    LET bodies == UNION {[1..n -> {"a", "b", " "}] : n \in 0..MaxLen}
        sender == [ID |-> 1, Slug |-> <<"e", "v", "e">>]
    IN  \E s1 \in bodies, s2 \in bodies :
            InitWith({ChannelRow(1, "alice", FALSE)},
                     {LivestreamData(1, 9, 30, 475)},
                     {AnalysedChat(1, sender, s1, 600),
                      AnalysedChat(2, sender, s2, 601)},
                     {[ChannelID |-> 1, Username |-> "alice",
                       Livestreams |-> <<>>]})

SpecText == InitText /\ [][NextAnalysis]_vars

(***************************************************************************)
(* SpecBursts: the report of SpecAnalysis for a sender who wrote nine      *)
(* messages within 6 s, the first "a" and each other "a" or "b", some of   *)
(* them in the same second.                                                *)
(***************************************************************************)
BurstTimes == <<600, 601, 601, 602, 602, 603, 604, 605, 606>>

InitBursts ==
    LET sender == [ID |-> 1, Slug |-> <<"e", "v", "e">>]
    IN  \E body \in [DOMAIN BurstTimes -> {<<"a">>, <<"b">>}] :
            /\ body[1] = <<"a">>
            /\ InitWith({ChannelRow(1, "alice", FALSE)},
                        {LivestreamData(1, 9, 30, 475)},
                        {AnalysedChat(i, sender, body[i], BurstTimes[i]) :
                            i \in DOMAIN BurstTimes},
                        {[ChannelID |-> 1, Username |-> "alice",
                          Livestreams |-> <<>>]})

SpecBursts == InitBursts /\ [][NextAnalysis]_vars

(***************************************************************************)
(* SpecWorkers: the report of SpecAnalysis with the worker pool step by    *)
(* step, over some of four messages: an emote of eve, "hi" of the app      *)
(* botrix, " HI " of eve and a text with an emote of bob.                  *)
(***************************************************************************)
WorkerChat ==
    LET eve == [ID |-> 1, Slug |-> <<"e", "v", "e">>]
        botrix == [ID |-> 3, Slug |-> <<"b", "o", "t", "r", "i", "x">>]
        bob == [ID |-> 2, Slug |-> <<"b", "o", "b">>]
        emote(n, name) == <<"[", "e", "m", "o", "t", "e", ":", n, ":">> \o name \o <<"]">>
    IN  {AnalysedChat(1, eve, emote("1", <<"k", "_", "1">>) \o <<" ">>, 600),
         AnalysedChat(2, botrix, <<"h", "i">>, 601),
         AnalysedChat(3, eve, <<" ", "H", "I", " ">>, 602),
         AnalysedChat(4, bob, <<"x", " ">> \o emote("2", <<"o", "k">>), 603)}

InitWorkers ==
    \E chats \in SUBSET WorkerChat :
        /\ Cardinality(chats) >= 2
        /\ InitWith({ChannelRow(1, "alice", FALSE)},
                    {LivestreamData(1, 9, 30, 475)},
                    chats,
                    {[ChannelID |-> 1, Username |-> "alice",
                      Livestreams |-> <<>>]})

NextWorkers ==
    \/ MainLoad(TRUE)
    \/ MainServe
    \/ Runs = {} /\ ProcessLivestreamReportHandler(TRUE, 9)
    \/ \E r \in Runs :
          \/ RunFindChannel(r, TRUE)
          \/ RunStartTime(r, TRUE)
          \/ RunWindow(r, TRUE)
          \/ RunStartWorkers(r, TRUE)
          \/ \E w \in 1..numWorkers :
                \/ WorkerReceive(r, w)
                \/ WorkerLock(r, w)
                \/ WorkerUpdate(r, w)
          \/ RunAnalyse(r)
          \/ RunSaveSpam(r, TRUE)
          \/ RunSaveReport(r, TRUE)
          \/ RunUpdateProfile(r, TRUE)
          \/ RunBackPatch(r, TRUE)

SpecWorkers == InitWorkers /\ [][NextWorkers]_vars

(***************************************************************************)
(* SpecViewers: reports of livestream 9, with chat at 650 and 1000, so the *)
(* window is 600 to 1200: five viewer blocks.  The snapshots stored are    *)
(* some of: livestream 9 at 500 (before the window), at 610, two at 700    *)
(* and one at 1090, and livestream 8 of the same channel at 890.           *)
(***************************************************************************)
ViewerSnapshots ==
    {LivestreamData(1, 9, 7, 500), LivestreamData(1, 9, 10, 610),
     LivestreamData(1, 9, 20, 700), LivestreamData(1, 9, 25, 700),
     LivestreamData(1, 9, 40, 1090), LivestreamData(1, 8, 99, 890)}

InitViewers ==
    \E snapshots \in SUBSET ViewerSnapshots :
        /\ \E d \in snapshots : d.LivestreamID = 9
        /\ InitWith({ChannelRow(1, "alice", FALSE)},
                    snapshots,
                    {StoredChat(1, <<9>>, 650), StoredChat(2, <<9>>, 1000)},
                    {[ChannelID |-> 1, Username |-> "alice",
                      Livestreams |-> <<>>]})

SpecViewers == InitViewers /\ [][NextAnalysis]_vars

(***************************************************************************)
(* SpecLive: a report is requested for livestream 9 while alice is live    *)
(* with it: her poller keeps the registry fresh and her subscriber stores  *)
(* the chat that arrives, in the block of the last stored message (598) or *)
(* in the next one (600).                                                  *)
(***************************************************************************)
InitLive ==
    InitWith({ChannelRow(1, "alice", TRUE)},
             {LivestreamData(1, 9, 0, 0 - 60)},
             {StoredChat(1, <<9>>, 597)},
             {[ChannelID |-> 1, Username |-> "alice", Livestreams |-> <<>>]})

LiveFrames(ch) ==
    {ChatFrame(2, ch.ChatroomID, [ID |-> 2, Slug |-> <<"b", "o", "b">>],
               <<"g", "g">>, t) : t \in {598, 600}}

NextLive ==
    \/ Startup
    \/ \E m \in Monitors :
          \E out \in FetchOutcomes({"non_ok_status"},
                                    ChannelPayloads(monitors[m].channel.Username,
                                                    MonitorLivestreams)) :
              PollFetch(m, out, TRUE)
    \/ \E m \in Monitors : PollLivestream(m, TRUE)
    \/ \E m \in Monitors : PollStore(m)
    \/ \E m \in Monitors : PollProfile(m, TRUE, TRUE)
    \/ \E m \in Monitors : PollSaveProfile(m, TRUE)
    \/ \E m \in Monitors : PollTicker(m)
    \/ \E m \in Monitors : WsDial(m, TRUE, TRUE)
    \/ \E m \in Monitors :
          \E f \in LiveFrames(monitors[m].channel) : WsHandle(m, f)
    \/ \E m \in Monitors : WsPersist(m, TRUE)
    \/ Runs = {} /\ ProcessLivestreamReportHandler(TRUE, 9)
    \/ \E r \in Runs : GenerateLivestreamReport(r)

SpecLive == InitLive /\ [][NextLive]_vars

(***************************************************************************)
(* Claims on the monitor.                                                  *)
(***************************************************************************)
\* The subscriber of monitor m takes the step from pc `from` to pc `to`.
WsStep(m, from, to) ==
    /\ m \in DOMAIN monitors
    /\ monitors[m].ws.pc = from
    /\ monitors'[m].ws.pc = to

PollStep(m, from, to) ==
    /\ m \in DOMAIN monitors
    /\ monitors[m].poll.pc = from
    /\ monitors'[m].poll.pc = to

\* C1: a chat message is given the registry entry's livestream id when, at
\* the time it is handled, the channel's entry is live and at most
\* 120 s + 20 s old, and NULL in every other case (no entry, zero entry,
\* not live, older); the row that is then persisted carries exactly that.
C1_Attribution ==
    [][\A m \in DOMAIN monitors :
          LET id == monitors[m].channel.ChannelID
              attributable ==
                  /\ id \in DOMAIN latestLivestream
                  /\ latestLivestream[id].IsLive
                  /\ now - latestLivestream[id].FetchTime <= 140
          IN  /\ WsStep(m, "read", "persist") =>
                     monitors'[m].ws.chatMessage.LivestreamID =
                         IF attributable
                         THEN <<latestLivestream[id].LivestreamID>>
                         ELSE <<>>
              /\ WsStep(m, "persist", "read") =>
                     \A r \in chat_messages' \ chat_messages :
                         r.LivestreamID = monitors[m].ws.chatMessage.LivestreamID
      ]_vars

\* C1 witness: the entry written by the poll at t = 0 is still in place at
\* t = 141; a message handled at 141 is about to be stored with NULL, and an
\* earlier message was stored with the livestream's id.
C1_Witness ==
    /\ now = 141
    /\ 1 \in DOMAIN latestLivestream
    /\ latestLivestream[1] = LatestLivestreamInfo(9, 0, TRUE)
    /\ \E m \in DOMAIN monitors :
          /\ monitors[m].ws.pc = "persist"
          /\ monitors[m].ws.chatMessage.CreatedAt = 141
          /\ monitors[m].ws.chatMessage.LivestreamID = <<>>
    /\ \E r \in chat_messages : r.LivestreamID = <<9>>

\* C2: every stored chat message with a livestream id has a stored
\* livestream snapshot with that id for the channel it was ingested for.
C2_ChatHasSnapshot ==
    \A r \in chat_messages :
        r.LivestreamID # <<>> =>
            \E s \in livestream_data :
                /\ s.LivestreamID = r.LivestreamID[1]
                /\ s.ChannelID = r.IngestChannelID

\* C2 witness: a message attributed to livestream 9 is stored for channel 2
\* after a snapshot insert of channel 2 failed at least once (a poll is past
\* its failed insert) while channel 1 holds a snapshot of the same id.
C2_Witness ==
    /\ \E r \in chat_messages : r.LivestreamID = <<9>> /\ r.IngestChannelID = 2
    /\ \E s \in livestream_data : s.ChannelID = 1 /\ s.LivestreamID = 9
    /\ \E m \in DOMAIN monitors :
          /\ monitors[m].channel.ChannelID = 1
          /\ monitors[m].poll.pc = "profile"
          /\ IsLivePayload(monitors[m].poll.kickData)
          /\ latestLivestream[1] = ZeroInfo

\* The poll of monitor m ends its registry phase in this step.
RegistryPhaseEnds(m) == PollStep(m, "fetched", "profile") \/ PollStep(m, "saved", "profile")

\* C3 as stated: after every poll whose fetch succeeded the entry is the
\* observed livestream, stamped with the time of the poll, when the payload
\* is live, and the zero record otherwise.
C3_RegistryAfterPoll ==
    [][\A m \in DOMAIN monitors :
          RegistryPhaseEnds(m) =>
              LET k == monitors[m].poll.kickData
                  id == monitors[m].channel.ChannelID
              IN  latestLivestream'[id] =
                      IF IsLivePayload(k)
                      THEN LatestLivestreamInfo(k.Livestream[1].ID, now, TRUE)
                      ELSE ZeroInfo
      ]_vars

\* C3 amended: the entry is the observed livestream stamped with the time of
\* the poll when the payload is live and its snapshot was saved; it is left
\* as it was when the payload is live and the snapshot insert failed; it is
\* the zero record when the payload is not live.
C3_RegistryAfterPollSaved ==
    [][\A m \in DOMAIN monitors :
          LET k == monitors[m].poll.kickData
              id == monitors[m].channel.ChannelID
          IN  /\ PollStep(m, "saved", "profile") =>
                     latestLivestream'[id] =
                         LatestLivestreamInfo(k.Livestream[1].ID, now, TRUE)
              /\ PollStep(m, "fetched", "profile") =>
                     IF IsLivePayload(k)
                     THEN /\ latestLivestream' = latestLivestream
                          /\ livestream_data' = livestream_data
                     ELSE latestLivestream'[id] = ZeroInfo
              /\ PollStep(m, "fetched", "saved") =>
                     /\ IsLivePayload(k)
                     /\ LivestreamData(id, k.Livestream[1].ID,
                                       k.Livestream[1].ViewerCount, now)
                            \in livestream_data'
      ]_vars

\* C3 witness: at t > 0 a poll has just written a live entry stamped with
\* the current time, and a snapshot of that livestream is stored.
C3_Witness ==
    /\ now > 0
    /\ \E m \in DOMAIN monitors :
          /\ monitors[m].poll.pc = "profile"
          /\ IsLivePayload(monitors[m].poll.kickData)
          /\ latestLivestream[monitors[m].channel.ChannelID] =
                 LatestLivestreamInfo(9, now, TRUE)
          /\ LivestreamData(monitors[m].channel.ChannelID, 9, 0, now)
                 \in livestream_data

(***************************************************************************)
(* Claims on the supervisor.                                               *)
(***************************************************************************)
\* Worker h takes the step from pc `from` to pc `to`.
HandlerStep(h, from, to) ==
    /\ handlers[h].pc = from
    /\ handlers'[h].pc = to

\* C4: add-or-reactivate on a username whose row the lookup returned.  Same
\* is_active: no row changes, no monitor is launched, the row is returned.
\* Different: either the update succeeds, the row's is_active becomes the
\* requested value, every other row is as before, a monitor bound to the
\* updated row is launched exactly when the request activates, and the
\* returned row carries the new is_active; or the update fails, an error is
\* returned, and no row changes and no monitor is launched.
C4_ExistingRow ==
    [][\A h \in Handlers :
          HandlerStep(h, "existing", "done") =>
              LET ex == handlers[h].existingChannel
                  active == handlers[h].req.IsActive
                  upd == [ex EXCEPT !.IsActive = active]
                  res == handlers'[h]
              IN  IF ex.IsActive = active
                  THEN /\ monitored_channels' = monitored_channels
                       /\ monitors' = monitors
                       /\ res.code = 200
                       /\ res.body = <<ex>>
                  ELSE \/ /\ res.code = 200
                          /\ res.body = <<upd>>
                          /\ upd \in monitored_channels'
                          /\ \A r \in monitored_channels' :
                                 r.ChannelID = ex.ChannelID => r = upd
                          /\ {r \in monitored_channels' : r.ChannelID # ex.ChannelID}
                                 = {r \in monitored_channels : r.ChannelID # ex.ChannelID}
                          /\ monitors' = IF active
                                         THEN Append(monitors, NewMonitor(upd))
                                         ELSE monitors
                       \/ /\ res.code = 500
                          /\ res.body = <<>>
                          /\ monitored_channels' = monitored_channels
                          /\ monitors' = monitors
      ]_vars

\* C4 witness: alice was stored inactive, so startup launched nothing for
\* her; a command activated her: her row is active, the response is 200 with
\* the updated row, and a monitor bound to it was launched.
C4_Witness ==
    /\ \A k \in DOMAIN main.activeChannels : main.activeChannels[k].Username # "alice"
    /\ ChannelRow(1, "alice", TRUE) \in monitored_channels
    /\ \E h \in Handlers :
          /\ handlers[h].pc = "done"
          /\ handlers[h].code = 200
          /\ handlers[h].req = [Username |-> "alice", IsActive |-> TRUE]
          /\ handlers[h].body = <<ChannelRow(1, "alice", TRUE)>>
    /\ \E m \in DOMAIN monitors : monitors[m].channel = ChannelRow(1, "alice", TRUE)

\* The row the command is to insert: the fetched ids, the requested
\* username and the requested is_active.
RequestedRow(hs) ==
    [ChannelID |-> hs.channel.ChannelID, ChatroomID |-> hs.channel.ChatroomID,
     Username |-> hs.req.Username, IsActive |-> hs.req.IsActive]

\* C5 as stated: add-or-reactivate on a username without row.  A failed
\* fetch inserts nothing and launches nothing; a row with the fetched
\* channel_id found by the double-check gives Conflict and no insert;
\* otherwise exactly one row {channel_id, chatroom_id, username, is_active =
\* active} is inserted and a monitor is launched iff active (an insert the
\* database refuses is allowed to insert nothing and answer an error).
C5_NoRow ==
    [][\A h \in Handlers :
          LET hs == handlers[h]
              res == handlers'[h]
              row == RequestedRow(hs)
          IN  /\ HandlerStep(h, "fetch", "done") =>
                     /\ monitored_channels' = monitored_channels
                     /\ monitors' = monitors
              /\ HandlerStep(h, "doublecheck", "done") =>
                     /\ monitored_channels' = monitored_channels
                     /\ monitors' = monitors
                     /\ res.err # "db_error" => res.code = 409
              /\ HandlerStep(h, "insert", "done") =>
                     \/ /\ res.code = 500
                        /\ monitored_channels' = monitored_channels
                        /\ monitors' = monitors
                     \/ /\ res.code = 201
                        /\ row \notin monitored_channels
                        /\ monitored_channels' = monitored_channels \cup {row}
                        /\ monitors' = IF hs.req.IsActive
                                       THEN Append(monitors, NewMonitor(row))
                                       ELSE monitors
      ]_vars

\* C6 as stated: of two concurrent add commands for the same channel the
\* loser inserts no row and launches no monitor, and reports Conflict (409)
\* both when its double-check finds the row and when its insert hits the
\* unique violation.
C6_LoserConflict ==
    [][\A h \in Handlers :
          LET res == handlers'[h]
          IN  /\ (HandlerStep(h, "doublecheck", "done") /\ res.err # "db_error") =>
                     /\ res.code = 409
                     /\ monitored_channels' = monitored_channels
                     /\ monitors' = monitors
              /\ (HandlerStep(h, "insert", "done") /\ res.err = "duplicate_key") =>
                     /\ res.code = 409
                     /\ monitored_channels' = monitored_channels
                     /\ monitors' = monitors
      ]_vars

Deactivated(m) ==
    \E r \in monitored_channels :
        r.ChannelID = monitors[m].channel.ChannelID /\ ~r.IsActive

\* C8 as stated: once a command has flipped a monitored channel to
\* is_active = false, its poller starts no further tick and its chat
\* subscriber takes no further chat message to persistence (a message
\* already on its way to the insert may complete).
C8_StoppedWhenDeactivated ==
    [][\A m \in DOMAIN monitors :
          Deactivated(m) =>
              /\ ~PollStep(m, "tick", "fetched")
              /\ ~WsStep(m, "read", "persist")
      ]_vars

(***************************************************************************)
(* Claims on the report command.                                           *)
(***************************************************************************)
\* What C9 says of one step: the response appended by it, and the runs
\* started by it.
AcknowledgedAsClaimed ==
    /\ Len(report_resp') = Len(report_resp) + 1 =>
           LET resp == report_resp'[Len(report_resp')]
           IN  IF resp.bound /\ resp.LivestreamID # 0
               THEN /\ resp.code = 202
                    /\ report_runs' = Append(report_runs, NewRun(resp.LivestreamID))
               ELSE /\ resp.code = 400
                    /\ resp.bound =>
                           resp.message =
                               "livestream_id is required and must be a valid ID"
                    /\ report_runs' = report_runs
    /\ Len(report_resp') = Len(report_resp) =>
           Len(report_runs') = Len(report_runs)

\* C9: a report request with livestream_id = 0 is answered 400 (payload
\* invalid) and starts no run; a request with a non-zero id is answered 202
\* in the step that starts exactly one run for that id, the run being still
\* at its start; runs start in no other way; and every started run
\* eventually ends, as done or as failed.
C9_ReportCommand ==
    /\ [][AcknowledgedAsClaimed]_vars
    /\ \A r \in 1..MaxReportRequests :
           (r \in Runs) ~> (r \in Runs /\ report_runs[r].pc \in {"done", "failed"})

\* C9 witness: a request with id 0 was answered 400, another was answered
\* 202, one run was started in all, and it is done.
C9_Witness ==
    /\ \E i \in DOMAIN report_resp :
          /\ report_resp[i].bound
          /\ report_resp[i].LivestreamID = 0
          /\ report_resp[i].code = 400
    /\ \E j \in DOMAIN report_resp : report_resp[j].code = 202
    /\ Len(report_runs) = 1
    /\ report_runs[1].pc = "done"

\* The run r of the step, when its livestream has no stored chat message.
NoChatRunSteps(r) ==
    /\ ChatMessagesOf(report_runs[r].livestreamID) = {}
    /\ report_runs'[r] # report_runs[r]

\* C10 as stated: a run for a livestream without stored chat messages
\* changes no spam report, livestream report or profile, and when it fails
\* for a reason other than a failing query, it fails with "no chat messages".
C10_NoData ==
    [][\A r \in Runs :
          NoChatRunSteps(r) =>
              /\ UNCHANGED reportTables
              /\ report_runs'[r].pc \in {"start_time", "window", "failed"}
              /\ (report_runs'[r].pc = "failed" /\ report_runs'[r].cause # "db_error")
                     => report_runs'[r].err = "no chat messages"
      ]_vars

\* C10 amended: a run for a livestream without stored chat messages changes
\* no spam report, livestream report or profile and always fails; unless a
\* query fails, it fails with "no chat messages" when a monitored channel
\* has a snapshot of the livestream and with "failed to find channel" when
\* none has.
C10_NoChatFails ==
    /\ [][\A r \in Runs :
              NoChatRunSteps(r) =>
                  /\ UNCHANGED reportTables
                  /\ report_runs'[r].pc \in {"start_time", "window", "failed"}
                  /\ (report_runs'[r].pc = "failed"
                          /\ report_runs'[r].cause # "db_error")
                         => report_runs'[r].err =
                                IF ChannelsOfLivestream(report_runs[r].livestreamID) = {}
                                THEN "failed to find channel"
                                ELSE "no chat messages"
         ]_vars
    /\ \A r \in 1..MaxReportRequests :
           (r \in Runs /\ ChatMessagesOf(report_runs[r].livestreamID) = {})
               ~> (r \in Runs /\ report_runs[r].pc = "failed")

\* C10 witness: livestream 9 has a snapshot and no chat message; a run for
\* it failed with "no chat messages" on the NULL of MIN/MAX, a run for the
\* unknown livestream 7 failed with "failed to find channel", and the
\* report tables are empty.
C10_Witness ==
    /\ ChatMessagesOf(9) = {}
    /\ ChannelsOfLivestream(9) # {}
    /\ \E r \in Runs :
          report_runs[r] = Fail([NewRun(9) EXCEPT
                                    !.monitoredChannel = ChannelRow(1, "alice", TRUE),
                                    !.streamActualStartTime = StartTimeOf(9)],
                                "no chat messages", "converting NULL")
    /\ \E r \in Runs :
          report_runs[r] = Fail(NewRun(7), "failed to find channel", "record not found")
    /\ spam_reports = {}
    /\ livestream_reports = {}

(***************************************************************************)
(* Claims on the report engine.                                            *)
(***************************************************************************)
\* The run that created report R has returned.
RunFinished(R) ==
    /\ R.ID \in Runs
    /\ report_runs[R.ID].pc \in {"done", "failed"}

\* C11 as stated: for every stored livestream report R whose run has
\* finished there is exactly one spam report that references R; it is the
\* one R references, and both carry the same channel id and livestream id.
C11_ReportPair ==
    \A R \in livestream_reports :
        RunFinished(R) =>
            LET referring == {S \in spam_reports : S.LivestreamReportID = R.ID}
            IN  /\ Cardinality(referring) = 1
                /\ \A S \in referring :
                       /\ R.SpamReportID = <<S.ID>>
                       /\ S.ChannelID = R.ChannelID
                       /\ S.LivestreamID = R.LivestreamID

\* The list of the profile row p has no duplicates.
DuplicateFree(list) ==
    \A i, j \in DOMAIN list : i # j => list[i] # list[j]

\* C12 as stated: when the profile builder has run for a channel (its tick
\* ends and the profile row is not left as it was), the row lists the id of
\* every stored livestream report of the channel, and lists no id twice.
C12_ProfileListsReports ==
    [][\A m \in DOMAIN monitors :
          (PollStep(m, "save", "wait") /\ streamer_profiles' # streamer_profiles) =>
              \A p \in streamer_profiles' :
                  p.ChannelID = monitors[m].channel.ChannelID =>
                      /\ \A id \in ReportIDsOf(p.ChannelID) : Contains(p.Livestreams, id)
                      /\ DuplicateFree(p.Livestreams)
      ]_vars

\* The window start of the stored report with this id.
WindowStartOf(id) ==
    (CHOOSE R \in livestream_reports : R.ID = id).ReportStartTime

\* C13 as stated: every profile's list is duplicate-free and its ids are
\* in the order of their reports' window starts.
C13_ListOrdered ==
    \A p \in streamer_profiles :
        /\ DuplicateFree(p.Livestreams)
        /\ \A i, j \in DOMAIN p.Livestreams :
               i < j => WindowStartOf(p.Livestreams[i]) <= WindowStartOf(p.Livestreams[j])

(***************************************************************************)
(* Claims on the time series of a report.                                  *)
(***************************************************************************)
\* The run that stored report R: the report's id is the run's.
RunOf(R) == report_runs[R.ID]

\* The series holds one point per viewer block of R's window, from the
\* window's start on.
ViewerSeriesCoversWindow(R) ==
    LET series == R.ViewerCountsTimeline
        length == R.ReportEndTime - R.ReportStartTime
    IN  /\ Len(series) = (length + ReportTimeBlock - 1) \div ReportTimeBlock
        /\ \A k \in DOMAIN series :
               series[k].Time = R.ReportStartTime + (k - 1) * ReportTimeBlock

IsFloor(t, x) ==
    t % MessageTimelineBlock = 0 /\ t <= x /\ x < t + MessageTimelineBlock

\* The least and the greatest send time of the stored chat of R's livestream.
MinT(R) == MinMessageTime(ChatMessagesOf(R.LivestreamID))

MaxT(R) == MaxMessageTime(ChatMessagesOf(R.LivestreamID))

\* C15: window_start = floor(min_t, 10 min), window_end =
\* ceil(max_t + 10 min, 10 min), and duration_minutes is the length of the
\* window in minutes.
C15_Window ==
    \A R \in livestream_reports :
        /\ IsFloor(R.ReportStartTime, MinT(R))
        /\ R.ReportEndTime % MessageTimelineBlock = 0
        /\ R.ReportEndTime - MessageTimelineBlock < MaxT(R) + MessageTimelineBlock
        /\ MaxT(R) + MessageTimelineBlock <= R.ReportEndTime
        /\ R.DurationMinutes * 60 = R.ReportEndTime - R.ReportStartTime

\* C15, amended: window_end = floor(max_t + 10 min, 10 min); the rest as
\* stated.
C15_WindowFloor ==
    \A R \in livestream_reports :
        /\ IsFloor(R.ReportStartTime, MinT(R))
        /\ IsFloor(R.ReportEndTime, MaxT(R) + MessageTimelineBlock)
        /\ R.DurationMinutes * 60 = R.ReportEndTime - R.ReportStartTime

\* C15 witness: a stored report for chat from 12:03:15 to 12:47:42, with
\* the window 12:00 to 12:50 and 50 minutes.
C15_Witness ==
    \E R \in livestream_reports :
        /\ MinT(R) = 795 /\ MaxT(R) = 3462
        /\ R.ReportStartTime = 600 /\ R.ReportEndTime = 3600
        /\ R.DurationMinutes = 50

\* The sum of the counts of a series.
RECURSIVE SumOfCounts(_)
SumOfCounts(series) ==
    IF series = <<>> THEN 0 ELSE series[1].Count + SumOfCounts(Tail(series))

\* C16: message_series has exactly one point for each 10-min instant t with
\* window_start <= t < window_end, in ascending order; the count at t is
\* the number of the chat events the run fetched whose sent_at has floor t,
\* so the counts sum to total_messages; for events from 12:03:15 to 12:47:42
\* the window is 12:00 to 12:50, 50 minutes, and the series is the 5 points
\* 12:00, 12:10, 12:20, 12:30, 12:40.
C16_MessageSeries ==
    \A R \in livestream_reports :
        LET series == R.MessageCountsTimeline
            events == RunOf(R).chatMessages
        IN  /\ Len(series) * MessageTimelineBlock
                   = R.ReportEndTime - R.ReportStartTime
            /\ \A k \in DOMAIN series :
                   /\ series[k].Time
                          = R.ReportStartTime + (k - 1) * MessageTimelineBlock
                   /\ series[k].Count =
                          Cardinality({i \in DOMAIN events :
                              IsFloor(series[k].Time, events[i].MessageSendTime)})
            /\ SumOfCounts(series) = R.TotalMessages
            /\ (MinT(R) = 795 /\ MaxT(R) = 3462) =>
                   /\ R.ReportStartTime = 600 /\ R.ReportEndTime = 3600
                   /\ R.DurationMinutes = 50
                   /\ [k \in DOMAIN series |-> series[k].Time]
                          = <<600, 1200, 1800, 2400, 3000>>

(***************************************************************************)
(* Claims on the spam analysis.  h is the history of one sender: the       *)
(* messages of the sender in the order the passes scan them.               *)
(***************************************************************************)
\* The anchors a scan reaches: the first message, then from anchor i the
\* message after the burst if a burst of count(i) events is emitted at i,
\* else the next message.
RECURSIVE Anchors(_, _, _, _)
Anchors(h, i, count, least) ==
    IF i > Len(h)
    THEN {}
    ELSE {i} \cup Anchors(h, IF count[i] >= least THEN i + count[i] ELSE i + 1,
                          count, least)

\* The exact-duplicate bursts the claim expects for h.  matches(i) is the
\* anchor i together with the later events sent at most 5 s after it whose
\* normalised body is the anchor's.
ExpectedExactBursts(h) ==
    LET matches(i) ==
            {i} \cup {j \in (i + 1)..Len(h) :
                         /\ h[j].MessageSendTime - h[i].MessageSendTime <= 5
                         /\ NormalizeChatMessage(h[j].Message)
                                = NormalizeChatMessage(h[i].Message)}
        count == [i \in DOMAIN h |-> Cardinality(matches(i))]
    IN  {[Username |-> h[i].SenderUsername,
          Content |-> h[i].Message,
          Count |-> count[i],
          Timestamps |-> Ascending({h[j].MessageSendTime : j \in matches(i)})] :
            i \in {a \in Anchors(h, 1, count, 3) : count[a] >= 3}}

\* C17: for each sender and each anchor the scan reaches, an exact-duplicate
\* burst is emitted iff the anchor and the later events within 5 s with the
\* same normalised body number at least 3; the record carries the anchor's
\* handle and raw body, that number, and the unique-sorted send times.
\* A sender's "GG", "gg  ", "GG" alone give one burst of count 3.
C17_ExactDuplicateBursts ==
    \A S \in spam_reports :
        LET history == RunOf(S).userMessageHistory
        IN  /\ S.ExactDuplicateBursts =
                   UNION {ExpectedExactBursts(history[u]) : u \in DOMAIN history}
            /\ \A u \in DOMAIN history :
                   [k \in DOMAIN history[u] |->
                       <<history[u][k].Message, history[u][k].MessageSendTime>>]
                     = << <<(<<"G", "G">>), 603>>,
                          <<(<<"g", "g", " ", " ">>), 604>>,
                          <<(<<"G", "G">>), 606>> >>
                   => {x \in S.ExactDuplicateBursts :
                          x.Username = history[u][1].SenderUsername} =
                          {[Username |-> history[u][1].SenderUsername,
                            Content |-> <<"G", "G">>, Count |-> 3,
                            Timestamps |-> <<603, 604, 606>>]}

\* C17 witness: a stored spam report for eve's "GG", "gg  ", "GG" alone,
\* with its one burst.
C17_Witness ==
    \E S \in spam_reports :
        /\ {<<m.Message, m.MessageSendTime>> : m \in chat_messages} =
               {<<(<<"G", "G">>), 603>>, <<(<<"g", "g", " ", " ">>), 604>>,
                <<(<<"G", "G">>), 606>>}
        /\ S.ExactDuplicateBursts =
               {[Username |-> <<"e", "v", "e">>, Content |-> <<"G", "G">>,
                 Count |-> 3, Timestamps |-> <<603, 604, 606>>]}

\* The words of a normalised body: the maximal runs without a blank.
Words(s) ==
    {SubSeq(s, p[1], p[2]) : p \in
        {p \in (DOMAIN s) \X (DOMAIN s) :
            /\ p[1] <= p[2]
            /\ \A k \in p[1]..p[2] : s[k] # " "
            /\ p[1] = 1 \/ s[p[1] - 1] = " "
            /\ p[2] = Len(s) \/ s[p[2] + 1] = " "}}

\* The distinct bodies of the events at the indices, first seen first.
RECURSIVE FirstSeen(_, _, _)
FirstSeen(h, indices, seen) ==
    IF indices = {}
    THEN <<>>
    ELSE LET i == CHOOSE x \in indices : \A y \in indices : x <= y
             rest == FirstSeen(h, indices \ {i}, seen \cup {h[i].Message})
         IN  IF h[i].Message \in seen THEN rest ELSE <<h[i].Message>> \o rest

\* The similar-message bursts the claim expects for h.  similar(a, b) is
\* jaccard >= 0.7 on the word sets of the normalised bodies; matches(i) is
\* the anchor i together with the later events sent at most 10 s after it
\* whose body is similar to the anchor's.
ExpectedSimilarBursts(h) ==
    LET similar(a, b) ==
            LET A == Words(NormalizeChatMessage(a))
                B == Words(NormalizeChatMessage(b))
            IN  IF A = {} /\ B = {} THEN TRUE
                ELSE IF A = {} \/ B = {} THEN FALSE
                ELSE 10 * Cardinality(A \cap B) >= 7 * Cardinality(A \cup B)
        matches(i) ==
            {i} \cup {j \in (i + 1)..Len(h) :
                         /\ h[j].MessageSendTime - h[i].MessageSendTime <= 10
                         /\ similar(h[i].Message, h[j].Message)}
        count == [i \in DOMAIN h |-> Cardinality(matches(i))]
    IN  {[Username |-> h[i].SenderUsername,
          Pattern |-> Join(FirstSeen(h, matches(i), {}), <<" ", "/", " ">>),
          Count |-> count[i],
          Timestamps |-> Ascending({h[j].MessageSendTime : j \in matches(i)})] :
            i \in {a \in Anchors(h, 1, count, 4) : count[a] >= 4}}

\* C18: for each sender and each anchor the scan reaches, a similar-message
\* burst is emitted iff the anchor and the later events within 10 s whose
\* normalised body has jaccard >= 0.7 with the anchor's number at least 4;
\* the record carries that number and the distinct raw bodies, first seen
\* first, joined by " / ".  A sender's four permutations of buy, now, link
\* alone, 2 s apart, give one burst of count 4.
C18_SimilarBursts ==
    \A S \in spam_reports :
        LET history == RunOf(S).userMessageHistory
        IN  /\ S.SimilarMessageBursts =
                   UNION {ExpectedSimilarBursts(history[u]) : u \in DOMAIN history}
            /\ \A u \in DOMAIN history :
                   /\ Len(history[u]) = 4
                   /\ \A k \in 1..4 :
                          /\ history[u][k].MessageSendTime = 798 + 2 * k
                          /\ Words(history[u][k].Message) =
                                 {<<"b", "u", "y">>, <<"n", "o", "w">>,
                                  <<"l", "i", "n", "k">>}
                   => \E b \in S.SimilarMessageBursts :
                          /\ {x \in S.SimilarMessageBursts :
                                 x.Username = history[u][1].SenderUsername} = {b}
                          /\ b.Count = 4
                          /\ b.Timestamps = <<800, 802, 804, 806>>

\* C18 witness: a stored spam report for bob's four permutations, sent
\* from 800 on, with one burst of count 4 whose pattern starts with the
\* anchor's body and holds three separators.
C18_Witness ==
    \E S \in spam_reports :
        /\ Cardinality({m \in chat_messages : m.SenderID = 2}) = 4
        /\ \E b \in S.SimilarMessageBursts :
               /\ S.SimilarMessageBursts = {b}
               /\ b.Username = <<"b", "o", "b">>
               /\ b.Count = 4
               /\ SubSeq(b.Pattern, 1, 15) =
                      <<"b", "u", "y", " ", "n", "o", "w", " ", "l", "i", "n",
                        "k", " ", "/", " ">>
               /\ Cardinality({i \in DOMAIN b.Pattern : b.Pattern[i] = "/"}) = 3

\* The anchor i of h together with the later events sent at most 3 s after
\* it.
RapidMatches(h, i) ==
    {i} \cup {j \in (i + 1)..Len(h) :
                 h[j].MessageSendTime - h[i].MessageSendTime <= 3}

\* The events of the rapid-fire bursts of h.
RapidEvents(h) ==
    LET count == [i \in DOMAIN h |-> Cardinality(RapidMatches(h, i))]
    IN  UNION {RapidMatches(h, a) :
                  a \in {a \in Anchors(h, 1, count, 5) : count[a] >= 5}}

\* C19: a sender with an event that has at least 5 of the sender's events
\* (itself included) within the 3 s after it is in suspicious_chatters with
\* the tag rapid_message_bursts, the unique-sorted send times of the events
\* of the bursts and their de-duplicated bodies, at most one per event; a
\* sender with no such event never has the tag.
C19_RapidFire ==
    \A S \in spam_reports :
        LET history == RunOf(S).userMessageHistory
            list == S.SuspiciousChatters
        IN  \A u \in DOMAIN history :
                LET h == history[u]
                    tagged == {k \in DOMAIN list :
                        /\ list[k].UserID = u
                        /\ Contains(list[k].PotentialIssues,
                                    "rapid_message_bursts")}
                IN  IF \E i \in DOMAIN h : Cardinality(RapidMatches(h, i)) >= 5
                    THEN /\ tagged # {}
                         /\ \A k \in tagged :
                                /\ list[k].MessageTimestamps =
                                       Ascending({h[j].MessageSendTime :
                                                     j \in RapidEvents(h)})
                                /\ list[k].ExampleMessages =
                                       FirstSeen(h, RapidEvents(h), {})
                                /\ Len(list[k].ExampleMessages)
                                       <= Cardinality(RapidEvents(h))
                    ELSE tagged = {}

\* C19 witness: a stored spam report for the five messages of the first
\* volley alone: eve is tagged, with the four send times and the four
\* different bodies of the five events.
C19_Witness ==
    \E S \in spam_reports :
        /\ Cardinality(chat_messages) = 5
        /\ S.SuspiciousChatters =
               <<[UserID |-> 1, Username |-> <<"e", "v", "e">>,
                  PotentialIssues |-> <<"rapid_message_bursts">>,
                  MessageTimestamps |-> <<603, 604, 605, 606>>,
                  ExampleMessages |-> RunOf(S).metrics
                      .SuspiciousChattersList[1].ExampleMessages]>>
        /\ Len(S.SuspiciousChatters[1].ExampleMessages) = 4
        /\ S.SuspiciousChatters[1].ExampleMessages[1] = <<"G", "G">>

\* C20: suspicious_chatters has at most one entry per user_id and every
\* potential_issues is duplicate-free; a sender who qualifies by rapid fire,
\* in one burst or several, and by username has one entry with both tags,
\* each once; a sender who qualifies by username only has
\* potential_issues = [suspicious_username] and no timestamps.
C20_OneEntryPerUser ==
    \A S \in spam_reports :
        LET history == RunOf(S).userMessageHistory
            list == S.SuspiciousChatters
            of(u) == {k \in DOMAIN list : list[k].UserID = u}
        IN  /\ \A k \in DOMAIN list :
                   /\ of(list[k].UserID) = {k}
                   /\ DuplicateFree(list[k].PotentialIssues)
            /\ \A u \in DOMAIN history :
                   LET rapid == RapidEvents(history[u]) # {}
                       name == SuspiciousUsername(history[u][1].SenderUsername)
                   IN  /\ rapid /\ name =>
                              \E k \in of(u) :
                                  list[k].PotentialIssues =
                                      <<"rapid_message_bursts",
                                        "suspicious_username">>
                       /\ ~rapid /\ name =>
                              \E k \in of(u) :
                                  /\ list[k].PotentialIssues =
                                         <<"suspicious_username">>
                                  /\ list[k].MessageTimestamps = <<>>
                       /\ ~rapid /\ ~name => of(u) = {}

\* C20 witness: a stored spam report for both volleys of Winner: one entry
\* with both tags and the eight send times of the two bursts.
C20_Witness ==
    \E S \in spam_reports :
        /\ Len(S.SuspiciousChatters) = 1
        /\ S.SuspiciousChatters[1].UserID = 1
        /\ S.SuspiciousChatters[1].Username = <<"W", "i", "n", "n", "e", "r">>
        /\ S.SuspiciousChatters[1].PotentialIssues =
               <<"rapid_message_bursts", "suspicious_username">>
        /\ S.SuspiciousChatters[1].MessageTimestamps =
               <<603, 604, 605, 606, 900, 901, 902, 903>>

(***************************************************************************)
(* C21.                                                                    *)
(***************************************************************************)
\* C21: duplicate_messages_count of a report is the sum, over the distinct
\* normalised bodies that occur at least twice among all chat events of the
\* livestream, whoever sent them, of (occurrences - 1); it is total_messages
\* minus the number of distinct normalised bodies.
C21_DuplicateCount ==
    \A S \in spam_reports :
        LET chat == ChatMessagesOf(S.LivestreamID)
            bodies == {NormalizeChatMessage(m.Message) : m \in chat}
            occurrences(b) ==
                Cardinality({m \in chat : NormalizeChatMessage(m.Message) = b})
            RECURSIVE Sum(_)
            Sum(keys) ==
                IF keys = {}
                THEN 0
                ELSE LET b == CHOOSE k \in keys : TRUE
                     IN  (occurrences(b) - 1) + Sum(keys \ {b})
        IN  /\ S.DuplicateMessagesCount =
                   Sum({b \in bodies : occurrences(b) >= 2})
            /\ S.DuplicateMessagesCount =
                   Len(RunOf(S).chatMessages) - Cardinality(bodies)
            /\ \A R \in livestream_reports :
                   R.ID = S.ID =>
                       S.DuplicateMessagesCount =
                           R.TotalMessages - Cardinality(bodies)

\* C21 witness: a stored spam report of a livestream whose chat is "hi" of
\* one sender and "Hi " of another: one duplicate.
C21_Witness ==
    \E S \in spam_reports :
        /\ {<<m.SenderID, m.Message>> : m \in ChatMessagesOf(S.LivestreamID)} =
               {<<1, (<<"h", "i">>)>>, <<2, (<<"H", "i", " ">>)>>}
        /\ S.DuplicateMessagesCount = 1

(***************************************************************************)
(* C22.                                                                    *)
(***************************************************************************)
\* C22: jaccard over the sets of white-space separated tokens: jaccard(s, s)
\* is 1.0 for every non-empty s; jaccard(a, b) = jaccard(b, a); two empty
\* token sets give 1.0, exactly one empty gives 0.0, and otherwise the
\* value is |A intersect B| / |A union B|.  Checked for the bodies of every
\* two stored chat messages; a value is the pair <<numerator, denominator>>.
C22_Jaccard ==
    \A m1 \in chat_messages, m2 \in chat_messages :
        LET a == m1.Message
            b == m2.Message
            A == Words(a)
            B == Words(b)
            j == JaccardSimilarity(a, b)
            i == JaccardSimilarity(b, a)
            self == JaccardSimilarity(a, a)
        IN  /\ j[2] > 0 /\ i[2] > 0 /\ self[2] > 0
            /\ a # <<>> => self[1] = self[2]
            /\ j[1] * i[2] = i[1] * j[2]
            /\ IF A = {} /\ B = {} THEN j[1] = j[2]
               ELSE IF A = {} \/ B = {} THEN j[1] = 0
               ELSE j[1] * Cardinality(A \cup B) = Cardinality(A \cap B) * j[2]

\* C22 witness: the report is stored for a sender who wrote "a b" and "b",
\* whose jaccard is 1/2.
C22_Witness ==
    /\ spam_reports # {}
    /\ {m.Message : m \in chat_messages} = {<<"a", " ", "b">>, <<"b">>}
    /\ JaccardSimilarity(<<"a", " ", "b">>, <<"b">>) = <<1, 2>>

(***************************************************************************)
(* Claims on the chat subscriber and the poller.                           *)
(***************************************************************************)
\* C23: within one channel's chat subscriber, events are persisted in the
\* order their frames were received: while frame n is being handled, its
\* persistence attempt included, the subscriber reads no other frame; the
\* attempt inserts the event of frame n and nothing else; and no event of
\* the subscriber is inserted in any other step.
C23_PersistedInOrder ==
    [][\A m \in DOMAIN monitors :
          LET ws == monitors[m].ws
          IN  /\ ws.pc = "persist" =>
                     monitors'[m].ws = ws \/ WsStep(m, "persist", "read")
              /\ WsStep(m, "persist", "read") =>
                     /\ chat_messages \subseteq chat_messages'
                     /\ \A r \in chat_messages' \ chat_messages :
                            /\ r.ID = ws.chatMessage.ID
                            /\ r.IngestChannelID = monitors[m].channel.ChannelID
              /\ (\E r \in chat_messages' \ chat_messages :
                        r.IngestChannelID = monitors[m].channel.ChannelID) =>
                     WsStep(m, "persist", "read")
      ]_vars

\* C23 witness: the events of frames 1 and 2 are stored and the event of a
\* third frame is on its way to the insert.
C23_Witness ==
    /\ {r.ID : r \in chat_messages} = {1, 2}
    /\ \E m \in DOMAIN monitors :
          /\ monitors[m].ws.pc = "persist"
          /\ monitors[m].ws.chatMessage.ID = 3

\* C24: no failure inside a poll tick ends the poller.  A fetch that fails
\* (transport error, envelope that is not ok, malformed envelope, missing
\* or invalid JSON) ends the tick and the poller waits for the ticker; a
\* failed ChannelData or LivestreamData insert is followed by the rest of
\* the tick; a failed profile builder ends the tick likewise; and a poller
\* that waits for the ticker can always take the next tick.
C24_PollerSurvives ==
    /\ [][\A m \in DOMAIN monitors :
            LET pc == monitors'[m].poll.pc
                ok == FetchOutcomes({}, ChannelPayloads(
                          monitors[m].channel.Username, AttributionLivestreams))
            IN  /\ monitors[m].poll.pc # "none" => pc # "none"
                /\ PollStep(m, "tick", pc) /\ pc # "tick" =>
                       /\ \A out \in FetchOutcomes(FetchFailures, {}),
                             dbOk \in BOOLEAN :
                              PollFetch(m, out, dbOk) => pc = "wait"
                       /\ \A out \in ok :
                              PollFetch(m, out, FALSE) => pc = "fetched"
                /\ PollStep(m, "fetched", pc) /\ pc # "fetched" =>
                       (PollLivestream(m, FALSE) => pc = "profile")
                /\ PollStep(m, "profile", pc) /\ pc # "profile" =>
                       /\ \A pluckOk \in BOOLEAN :
                              PollProfile(m, FALSE, pluckOk) => pc = "wait"
                       /\ PollProfile(m, TRUE, FALSE) => pc = "save"
                /\ PollStep(m, "save", pc) /\ pc # "save" =>
                       (PollSaveProfile(m, FALSE) => pc = "wait")
                /\ PollStep(m, "wait", pc) => pc \in {"wait", "tick"}
       ]_vars
    /\ [](\A m \in DOMAIN monitors :
             monitors[m].poll.pc = "wait" => ENABLED PollTicker(m))

\* C24 witness: a tick whose ChannelData insert and LivestreamData insert
\* both failed is about to run the profile builder.
C24_Witness ==
    \E m \in DOMAIN monitors :
        /\ monitors[m].poll.pc = "profile"
        /\ IsLivePayload(monitors[m].poll.kickData)
        /\ channel_data = {}
        /\ livestream_data = {}

\* C30: a poll tick whose proxy call fails, whose envelope is malformed or
\* not ok, or whose embedded JSON is missing or invalid is skipped whole:
\* it inserts no ChannelData and no LivestreamData row, leaves the registry
\* as it was, does not run the profile builder, and the poller waits for
\* the ticker.
C30_FailedTickSkipped ==
    [][\A m \in DOMAIN monitors :
          \A out \in FetchOutcomes(FetchFailures, {}), dbOk \in BOOLEAN :
              PollFetch(m, out, dbOk) =>
                  /\ UNCHANGED <<dbVars, latestLivestream>>
                  /\ monitors' = [monitors EXCEPT ![m].poll.pc = "wait"]
      ]_vars

\* C30 witness: the first tick of a poller is over and nothing is stored,
\* the registry holds the zero entry and no profile exists.
C30_Witness ==
    \E m \in DOMAIN monitors :
        /\ monitors[m].poll.pc = "wait"
        /\ dbVars = <<monitored_channels, {}, {}, {}, {}, {}, {}>>
        /\ latestLivestream[monitors[m].channel.ChannelID] = ZeroInfo

\* What C25 says of the step of subscriber m after which it sleeps: `dial`
\* seconds after a failed dial, `write` seconds after a failed subscribe
\* write, `read` seconds after a failed read, the connection closed and the
\* subscriber next at the dial; a sleeping subscriber does nothing until
\* its sleep is over, and a dial is made only by a subscriber whose sleep
\* is over.
BackOff(m, dial, write, read) ==
    LET ws == monitors[m].ws
        next == monitors'[m].ws
    IN  /\ \A writeOk \in BOOLEAN :
               WsDial(m, FALSE, writeOk) => next.pc = "dial" /\ next.sleep = dial
        /\ WsDial(m, TRUE, FALSE) => next.pc = "dial" /\ next.sleep = write
        /\ WsReadError(m) => next.pc = "dial" /\ next.sleep = read
        /\ ws.sleep > 0 =>
               /\ next.pc = "dial"
               /\ next.sleep = IF ws.sleep > now' - now
                               THEN ws.sleep - (now' - now) ELSE 0
        /\ WsStep(m, "dial", "read") => ws.sleep = 0

\* C25 as stated: a failed initial dial is followed by a 5 s sleep and a
\* new dial; a read failure or a write failure on an established
\* connection is followed by closing it, a 1 s sleep and a new dial.
C25_BackOff ==
    [][\A m \in DOMAIN monitors : BackOff(m, 5, 1, 1)]_vars

\* C25 amended: a failed dial and a failed subscribe write, the only write
\* the subscriber makes, are both followed by a 5 s sleep and a new dial,
\* the connection of the failed write closed; a read failure is followed by
\* closing the connection, a 1 s sleep and a new dial.
C25_BackOffOfCreate ==
    [][\A m \in DOMAIN monitors : BackOff(m, 5, 5, 1)]_vars

\* C25 witness: a subscriber that has stored a chat message, and so was
\* connected, is one second into a sleep of 5 s.
C25_Witness ==
    /\ chat_messages # {}
    /\ \E m \in DOMAIN monitors :
          monitors[m].ws.pc = "dial" /\ monitors[m].ws.sleep = 4

\* C26: a chat-message frame whose data does not decode as JSON, whose
\* created_at fails to parse, or whose id is not a valid UUID is logged and
\* skipped: no chat message is persisted for it, none is on its way to the
\* insert, and the subscriber goes on to the next frame.
C26_InvalidFrameSkipped ==
    /\ [][\A m \in DOMAIN monitors :
            \A f \in SubscriberFrames(monitors[m].channel) :
                (/\ WsHandle(m, f)
                 /\ ~f.decodes \/ ~f.uuidOk \/ f.CreatedAt = ZeroTime) =>
                    /\ monitors'[m].ws.pc = "read"
                    /\ chat_messages' = chat_messages
       ]_vars
    /\ [](\A r \in chat_messages : r.MessageSendTime # ZeroTime)

\* C27: in every reachable state, whatever the startup scan and the
\* add-or-reactivate commands did, a deactivation followed by a
\* reactivation included, each channel has at most one running poller and
\* at most one running chat subscriber.
C27_OneMonitorPerChannel ==
    \A id \in {monitors[m].channel.ChannelID : m \in DOMAIN monitors} :
        LET of == {m \in DOMAIN monitors : monitors[m].channel.ChannelID = id}
        IN  /\ Cardinality({m \in of : monitors[m].poll.pc # "none"}) <= 1
            /\ Cardinality({m \in of : monitors[m].ws.pc # "none"}) <= 1

(***************************************************************************)
(* C28.                                                                    *)
(***************************************************************************)
\* C28: once report generation has appended report id R to a channel's
\* profile list, R is in that list in every later state, whatever the
\* channel's profile builder does in between (it reads the profile, queries
\* the report ids and saves the whole row).
C28_AppendedStays ==
    [][\A p \in streamer_profiles :
          \A R \in {p.Livestreams[i] : i \in DOMAIN p.Livestreams} :
              \A q \in streamer_profiles' :
                  q.ChannelID = p.ChannelID => Contains(q.Livestreams, R)
      ]_vars

(***************************************************************************)
(* C29.                                                                    *)
(***************************************************************************)
\* C29: under fairness the chat subscriber never gives up.  A started
\* subscriber is always dialling, reading or persisting, never stopped;
\* a failed dial or subscribe write and a failed read leave it about to
\* dial, with no count of the failures before; and whenever it sleeps after
\* a failure, with the sleep ending within the clock, it gets to dial again.
C29_NeverGivesUp ==
    /\ [](\A m \in DOMAIN monitors :
             monitors[m].ws.pc # "none"
                 => monitors[m].ws.pc \in {"dial", "read", "persist"})
    /\ [][\A m \in DOMAIN monitors :
             /\ monitors[m].ws.pc # "none"
                    => /\ m \in DOMAIN monitors'
                       /\ monitors'[m].ws.pc # "none"
             /\ \A dialOk \in BOOLEAN, writeOk \in BOOLEAN :
                    WsDial(m, dialOk, writeOk) /\ ~(dialOk /\ writeOk)
                        => monitors'[m].ws.pc = "dial"
             /\ WsReadError(m) => monitors'[m].ws.pc = "dial"]_vars
    /\ (/\ 1 \in DOMAIN monitors
        /\ monitors[1].ws.pc = "dial"
        /\ monitors[1].ws.sleep > 0
        /\ now + monitors[1].ws.sleep <= MaxSleepTime)
           ~> (/\ 1 \in DOMAIN monitors
               /\ monitors[1].ws.pc = "dial"
               /\ monitors[1].ws.sleep = 0)

\* The subscriber sleeps 5 s after a failed dial that followed an earlier
\* failure and its sleep.
C29_Witness ==
    /\ 1 \in DOMAIN monitors
    /\ monitors[1].ws.pc = "dial"
    /\ monitors[1].ws.sleep = DialRetryDelay
    /\ now >= ReconnectDelay
    /\ now + monitors[1].ws.sleep <= MaxSleepTime

(***************************************************************************)
(* C31.                                                                    *)
(***************************************************************************)
\* C31: nothing is rolled back when a persistence step of report generation
\* fails after an earlier one succeeded.  No step of any run removes a spam
\* report or a livestream report.  When the insert of the report fails, the
\* run's spam report stays as inserted, with the placeholder report id, no
\* report of the run exists and the run returns the error.  When the profile
\* append or the back-patch fails, both rows stay as they are and the run
\* goes on and ends without error.
C31_NothingRolledBack ==
    /\ [][/\ {x.ID : x \in spam_reports} \subseteq {x.ID : x \in spam_reports'}
          /\ livestream_reports \subseteq livestream_reports'
          /\ \A r \in Runs :
                /\ RunSaveReport(r, FALSE)
                      => /\ SpamReport(r, report_runs[r], 0) \in spam_reports'
                         /\ ~\E x \in livestream_reports' : x.ID = r
                         /\ report_runs'[r].pc = "failed"
                         /\ report_runs'[r].err = "failed to save livestream report"
                /\ RunUpdateProfile(r, FALSE)
                      => /\ SpamReport(r, report_runs[r], 0) \in spam_reports'
                         /\ LivestreamReport(r, report_runs[r]) \in livestream_reports'
                         /\ report_runs'[r].pc = "back_patch"
                         /\ report_runs'[r].err = ""
                /\ RunBackPatch(r, FALSE)
                      => /\ SpamReport(r, report_runs[r], 0) \in spam_reports'
                         /\ LivestreamReport(r, report_runs[r]) \in livestream_reports'
                         /\ report_runs'[r].pc = "done"
                         /\ report_runs'[r].err = ""]_vars
    /\ [](\A r \in Runs :
             report_runs[r].err = "failed to save livestream report"
                 => /\ SpamReport(r, report_runs[r], 0) \in spam_reports
                    /\ ~\E x \in livestream_reports : x.ID = r)

\* One run has returned the error of the report's insert and its spam
\* report is stored with the placeholder; another run has ended without
\* error and its spam report still carries the placeholder, the back-patch
\* having failed.
C31_Witness ==
    \E r \in Runs, q \in Runs :
        /\ report_runs[r].pc = "failed"
        /\ report_runs[r].err = "failed to save livestream report"
        /\ SpamReport(r, report_runs[r], 0) \in spam_reports
        /\ report_runs[q].pc = "done"
        /\ report_runs[q].err = ""
        /\ SpamReport(q, report_runs[q], 0) \in spam_reports
        /\ LivestreamReport(q, report_runs[q]) \in livestream_reports

(***************************************************************************)
(* C34.                                                                    *)
(***************************************************************************)
\* C34: when the snapshots of the report's livestream carry a start_time and
\* the earliest one is earlier than the first chat message's send time
\* floored to 10 minutes, the report's window starts at that start_time, and
\* its duration is counted from it.
C34_WindowFromStartTime ==
    \A R \in livestream_reports :
        LET starts == {d.StartTime :
                          d \in {x \in livestream_data :
                                    /\ x.LivestreamID = R.LivestreamID
                                    /\ x.StartTime # ZeroTime}}
            start_time == CHOOSE t \in starts : \A u \in starts : t <= u
            min_t == MinMessageTime(ChatMessagesOf(R.LivestreamID))
        IN  (starts # {} /\ start_time < Truncate(min_t, MessageTimelineBlock))
                => /\ R.ReportStartTime = start_time
                   /\ R.DurationMinutes = (R.ReportEndTime - start_time) \div 60

(***************************************************************************)
(* C32.                                                                    *)
(***************************************************************************)
\* Two bursts of one sender in one list share no chat event: a send time
\* they share is the send time of two messages of the sender at least.
BurstsDisjoint(bursts, livestreamID) ==
    \A b \in bursts, c \in bursts :
        (b # c /\ b.Username = c.Username)
            => \A k \in DOMAIN b.Timestamps :
                   Contains(c.Timestamps, b.Timestamps[k])
                       => Cardinality(
                              {m \in ChatMessagesOf(livestreamID) :
                                  /\ m.SenderUsername = b.Username
                                  /\ m.MessageSendTime = b.Timestamps[k]})
                              > 1

\* C32: the bursts one pass emits for one sender do not overlap: no chat
\* event is counted in two exact-duplicate bursts nor in two
\* similar-message bursts of the sender, also when other messages of the
\* sender lie between a burst's first message and its matches.
C32_BurstsDoNotOverlap ==
    \A S \in spam_reports :
        /\ BurstsDisjoint(S.ExactDuplicateBursts, S.LivestreamID)
        /\ BurstsDisjoint(S.SimilarMessageBursts, S.LivestreamID)

(***************************************************************************)
(* C33.                                                                    *)
(***************************************************************************)
\* The per-message metrics.
PerMessageMetrics(metrics) ==
    [UniqueChatters |-> metrics.UniqueChatters,
     MessagesWithEmotes |-> metrics.MessagesWithEmotes,
     MessagesMultipleEmotesOnly |-> metrics.MessagesMultipleEmotesOnly,
     MessagesFromApps |-> metrics.MessagesFromApps,
     ExactDuplicateContents |-> metrics.ExactDuplicateContents]

\* The number of messages counted in the occurrence map.
Processed(contents) ==
    LET RECURSIVE Sum(_)
        Sum(keys) ==
            IF keys = {} THEN 0
            ELSE LET key == CHOOSE k \in keys : TRUE
                 IN  contents[key] + Sum(keys \ {key})
    IN  Sum(DOMAIN contents)

\* C33: the per-message metrics of a report are those of a sequential pass
\* over the fetched chat events, for every interleaving of the 4 workers.
\* While the workers run, every fetched event is in the channel, held by one
\* worker or counted once, and one worker at most is updating the metrics;
\* the analysis reads the metrics only when every worker is done, and they
\* are then those of the sequential pass.
C33_WorkersAsSequential ==
    /\ [](\A r \in Runs :
             LET run == report_runs[r]
                 busy == {w \in DOMAIN run.workers : run.workers[w].pc # "done"}
                 holding == {w \in DOMAIN run.workers : run.workers[w].msg # <<>>}
             IN  run.pc = "workers"
                     => /\ run.wg = Cardinality(busy)
                        /\ Cardinality({w \in DOMAIN run.workers :
                                           run.workers[w].pc = "update"}) <= 1
                        /\ Len(run.messageProcessingChan) + Cardinality(holding)
                               + Processed(run.metrics.ExactDuplicateContents)
                           = Len(run.chatMessages)
                        /\ run.wg = 0
                               => PerMessageMetrics(run.metrics)
                                  = PerMessageMetrics(MessageWorkers(
                                        NewReportMetrics, run.chatMessages, 1)))
    /\ [][\A r \in Runs :
             (report_runs[r].pc = "workers" /\ report_runs'[r].pc # "workers")
                 => /\ \A w \in 1..numWorkers :
                           report_runs[r].workers[w].pc = "done"
                    /\ PerMessageMetrics(report_runs'[r].metrics)
                       = PerMessageMetrics(MessageWorkers(
                             NewReportMetrics, report_runs[r].chatMessages, 1))
         ]_vars

\* The four workers are done with four messages, of three senders, one of
\* them an app, two with an emote and two of the same normalised body.
C33_Witness ==
    \E r \in Runs :
        /\ report_runs[r].pc = "workers"
        /\ report_runs[r].wg = 0
        /\ Len(report_runs[r].chatMessages) = numWorkers
        /\ Cardinality(report_runs[r].metrics.UniqueChatters) = 3
        /\ report_runs[r].metrics.MessagesFromApps = 1
        /\ report_runs[r].metrics.MessagesWithEmotes = 2
        /\ report_runs[r].metrics.MessagesMultipleEmotesOnly = 1
        /\ \E key \in DOMAIN report_runs[r].metrics.ExactDuplicateContents :
              report_runs[r].metrics.ExactDuplicateContents[key] = 2

(***************************************************************************)
(* C35.                                                                    *)
(***************************************************************************)
\* C35: for each interval [t, t + 2 min) of a report's viewer_series the
\* count is the viewer count of the snapshot captured last among those the
\* run fetched that fall in the interval; with none in the interval it is
\* the count of the point before; with no point before it is 0.
C35_LastSnapshotOrCarry ==
    \A R \in livestream_reports :
        LET series == R.ViewerCountsTimeline
            viewerCounts == RunOf(R).viewerCounts
        IN  \A k \in DOMAIN series :
                LET t == series[k].Time
                    inBlock == {i \in DOMAIN viewerCounts :
                                   /\ t <= viewerCounts[i].CreatedAt
                                   /\ viewerCounts[i].CreatedAt < t + ReportTimeBlock}
                IN  IF inBlock # {}
                    THEN \E i \in inBlock :
                            /\ \A j \in inBlock : viewerCounts[j].CreatedAt
                                                      <= viewerCounts[i].CreatedAt
                            /\ series[k].Count = viewerCounts[i].ViewerCount
                    ELSE IF k > 1
                    THEN series[k].Count = series[k - 1].Count
                    ELSE series[k].Count = 0

\* A report whose first interval holds the snapshots of 610 and 700 and
\* takes the count of 700, whose second interval holds none and repeats it,
\* and whose last interval takes the count of 1090.
C35_Witness ==
    \E R \in livestream_reports :
        LET series == R.ViewerCountsTimeline
            viewerCounts == RunOf(R).viewerCounts
        IN  /\ Len(series) = 5
            /\ \E i \in DOMAIN viewerCounts : viewerCounts[i].CreatedAt = 610
            /\ series[1].Count = 20
            /\ series[2].Count = 20
            /\ series[5].Count = 40

(***************************************************************************)
(* C39.                                                                    *)
(***************************************************************************)
\* C39: the viewer_series and the average, peak and lowest viewers of a
\* report for livestream L are computed from snapshots of L only: they are
\* what the snapshots of L in the window, each way widened by 2 min, give,
\* whatever snapshots of another livestream of the channel lie there.
C39_OwnSnapshotsOnly ==
    \A R \in livestream_reports :
        LET own == {d \in ViewerCountsOf(R.ChannelID, R.ReportStartTime,
                                         R.ReportEndTime) :
                       d.LivestreamID = R.LivestreamID}
        IN  \E viewerCounts \in OrderedBy({<<d.CreatedAt, d>> : d \in own}) :
                /\ R.ViewerCountsTimeline
                       = buildViewerCountTimeline(viewerCounts, R.ReportStartTime,
                                                  R.ReportEndTime)
                /\ R.AverageViewers = calculateViewerAnalytics(viewerCounts).average
                /\ R.PeakViewers = calculateViewerAnalytics(viewerCounts).peak
                /\ R.LowestViewers = calculateViewerAnalytics(viewerCounts).lowest

OneProfilePerChannel ==
    \A c \in monitored_channels :
        Cardinality({p \in streamer_profiles : p.ChannelID = c.ChannelID}) = 1

\* C37: in every reachable state each monitored channel, active or not, has
\* exactly one streamer profile, whichever polls have succeeded; so no step
\* of the program leads from a state where that holds to one where it does
\* not.
C37_OneProfilePerChannel ==
    [][OneProfilePerChannel => OneProfilePerChannel']_vars

(***************************************************************************)
(* C38.                                                                    *)
(***************************************************************************)
\* C38: in every reachable state there is at most one livestream report and
\* at most one spam report for each livestream id, however many times a
\* report of the livestream is requested.
C38_OneReportPerLivestream ==
    \A id \in {R.LivestreamID : R \in livestream_reports}
              \cup {S.LivestreamID : S \in spam_reports} :
        /\ Cardinality({R \in livestream_reports : R.LivestreamID = id}) <= 1
        /\ Cardinality({S \in spam_reports : S.LivestreamID = id}) <= 1

(***************************************************************************)
(* C40.                                                                    *)
(***************************************************************************)
\* C40: the count of every exact-duplicate burst and of every
\* similar-message burst of a spam report is the number of entries of the
\* burst's list of timestamps, also when events of the burst were sent at
\* the same time.
C40_CountIsTimestamps ==
    \A S \in spam_reports :
        \A b \in S.ExactDuplicateBursts \cup S.SimilarMessageBursts :
            b.Count = Len(b.Timestamps)

====
